---------------------------- MODULE Spec2Model ----------------------------
(***************************************************************************)
(* A model of the Monkey interpreter of michaeljota/monkey-ts: the lexer   *)
(* (src/src/lexer/lexer.ts with its helpers), the Pratt parser             *)
(* (src/src/parser/parser.ts), the tree-walking evaluator with its         *)
(* environments and builtins, and the REPL loop that drives them.          *)
(*                                                                         *)
(* Source text is a sequence of one-character strings, positions are the   *)
(* 0-based cursors of the code.                                            *)
(***************************************************************************)
EXTENDS Integers, Sequences, FiniteSets, TLC

VARIABLES
    input,      \* $input: the text of the lexer store
    cursor,     \* $cursor: 0-based position of the lexer store
    token,      \* $token: the token nextToken() hands out
    lexStatus,  \* "idle" (no Lexer built), "ok", or "hang" (nextTokenFx never returns)
    emitted,    \* history: the tokens returned since the Lexer was built, with their spans
    line,       \* the text last handed to the parser
    parsed,     \* what parseProgram made of it
    heap,       \* the Environment objects, by identity; 1 is the REPL's environment
    objs,       \* the number of arrays, hashes, functions and Return objects built
    trace,      \* history: the evaluate calls of the last line, entered and left
    result,     \* what evaluate returned for the last line
    console,    \* what the REPL has written
    replStatus, \* "off", "running", "closed", "crashed" (host exception) or "hang"
    lineNo,     \* history: the number of lines read
    reparsed,   \* what parseProgram made of the rendering of the parsed program
    lexers      \* history: the Lexer objects built, each with its text and the tokens it returned

lexVars == <<input, cursor, token, lexStatus, emitted, lexers>>

parseVars == <<line, parsed, reparsed>>

replVars == <<heap, objs, trace, result, console, replStatus, lineNo>>

vars == <<input, cursor, token, lexStatus, emitted, line, parsed,
          heap, objs, trace, result, console, replStatus, lineNo, reparsed, lexers>>

\* no Lexer object built
LexerOff ==
    /\ input = <<>>
    /\ cursor = 0
    /\ token = [type |-> "EOF", literal |-> <<>>]
    /\ lexStatus = "idle"
    /\ emitted = <<>>
    /\ lexers = <<>>

\* nothing parsed
ParserOff ==
    /\ line = <<>>
    /\ parsed = [tag |-> "none"]
    /\ reparsed = [tag |-> "none"]

\* no REPL started
ReplOff ==
    /\ heap = <<>>
    /\ objs = 0
    /\ trace = <<>>
    /\ result = [type |-> "undefined"]
    /\ console = <<>>
    /\ replStatus = "off"
    /\ lineNo = 0

(***************************************************************************)
(* Bounds of the model.                                                    *)
(***************************************************************************)
MaxInputLen == 4

(***************************************************************************)
(* Characters.                                                             *)
(***************************************************************************)
Undefined == "undefined"    \* what String.prototype.at returns past the end

LetterChars ==
    {"a","b","c","d","e","f","g","h","i","j","k","l","m","n","o","p","q","r","s",
     "t","u","v","w","x","y","z","A","B","C","D","E","F","G","H","I","J","K","L",
     "M","N","O","P","Q","R","S","T","U","V","W","X","Y","Z","_"}

DigitChars == {"0","1","2","3","4","5","6","7","8","9"}

WhitespaceChars == {" ", "\t", "\n", "\r", "\f"}

\* The characters the model's input strings are built from: letters that spell a
\* keyword (fn) or not, a digit, a blank, the two-character operators' characters,
\* one single-character delimiter, the double quote and a character no token starts with.
Alphabet == {"f", "n", "7", " ", "=", "!", ";", "\"", "@"}

isLetter(ch) == ch # Undefined /\ ch \in LetterChars

isDigit(ch) == ch # Undefined /\ ch \in DigitChars

isWhitespace(ch) == ch # Undefined /\ ch \in WhitespaceChars

isNotQuotationMark(ch) == ch # "\""

isEndOfFile(inputLength, c) == c >= inputLength

Keywords ==
    [fn |-> "FUNCTION", let |-> "LET", true |-> "TRUE", false |-> "FALSE",
     if |-> "IF", else |-> "ELSE", return |-> "RETURN"]

\* The text of a literal as the key of the Keywords table.
KeywordSpelling ==
    [fn |-> <<"f","n">>, let |-> <<"l","e","t">>, true |-> <<"t","r","u","e">>,
     false |-> <<"f","a","l","s","e">>, if |-> <<"i","f">>,
     else |-> <<"e","l","s","e">>, return |-> <<"r","e","t","u","r","n">>]

getTokenTypeFromLiteral(literal) ==
    IF \E k \in DOMAIN Keywords : KeywordSpelling[k] = literal
    THEN Keywords[CHOOSE k \in DOMAIN Keywords : KeywordSpelling[k] = literal]
    ELSE "IDENT"

\* input.at(i) for i >= 0
At(s, i) == IF i < Len(s) THEN s[i + 1] ELSE Undefined

\* input.substring(from, to) for 0 <= from <= to
Substring(s, from, to) ==
    LET hi == IF to > Len(s) THEN Len(s) ELSE to
    IN  IF from >= hi THEN <<>> ELSE SubSeq(s, from + 1, hi)

isExpectedToken(kind, ch) ==
    CASE kind = "whitespace" -> isWhitespace(ch)
      [] kind = "string"     -> isNotQuotationMark(ch)
      [] kind = "identifier" -> isLetter(ch)
      [] kind = "number"     -> isDigit(ch)

(***************************************************************************)
(* readStringToken: `while (cursor < input.length && isExpectedToken(      *)
(* input.at(nextCursor))) nextCursor++`.  The loop tests the cursor it was *)
(* called with, which never changes; once nextCursor is past the end,      *)
(* input.at(nextCursor) is undefined on every further round, so a          *)
(* predicate that accepts undefined keeps the loop running for ever.       *)
(***************************************************************************)
RECURSIVE readStringTokenLoop(_, _, _, _)
readStringTokenLoop(kind, s, c, nextCursor) ==
    IF c < Len(s) /\ isExpectedToken(kind, At(s, nextCursor))
    THEN IF nextCursor >= Len(s)
         THEN [hang |-> TRUE, lit |-> <<>>, cursor |-> nextCursor]
         ELSE readStringTokenLoop(kind, s, c, nextCursor + 1)
    ELSE [hang |-> FALSE, lit |-> Substring(s, c, nextCursor), cursor |-> nextCursor]

readStringToken(kind, s, c) == readStringTokenLoop(kind, s, c, c)

skipWhitespace(s, c) == readStringToken("whitespace", s, c).cursor

readString(s, c) == readStringToken("string", s, c)

readIdentifier(s, c) == readStringToken("identifier", s, c)

readNumber(s, c) == readStringToken("number", s, c)

(***************************************************************************)
(* Tokens.                                                                 *)
(***************************************************************************)
Tok(type, literal) == [type |-> type, literal |-> literal]

EOF_TOKEN == Tok("EOF", <<>>)

\* The single-character cases of nextTokenFx's switch.
SingleCharType ==
    [c \in {";", ":", ",", "+", "-", "*", "/", "{", "}", "(", ")", "[", "]", "<", ">"} |->
        CASE c = ";" -> "SEMICOLON" [] c = ":" -> "COLON"    [] c = "," -> "COMMA"
          [] c = "+" -> "PLUS"      [] c = "-" -> "MINUS"    [] c = "*" -> "ASTERISK"
          [] c = "/" -> "SLASH"     [] c = "{" -> "LBRACE"   [] c = "}" -> "RBRACE"
          [] c = "(" -> "LPAREN"    [] c = ")" -> "RPAREN"   [] c = "[" -> "LBRACKET"
          [] c = "]" -> "RBRACKET"  [] c = "<" -> "LT"       [] c = ">" -> "GT"]

Result(tok, c, start) == [hang |-> FALSE, token |-> tok, cursor |-> c, start |-> start]

nextTokenFx(s, c) ==
    LET p      == skipWhitespace(s, c)
        ch     == At(s, p)
        nextCh == At(s, p + 1)
    IN  IF isEndOfFile(Len(s), p) THEN Result(EOF_TOKEN, p, p)
        ELSE CASE ch = "=" ->
                    IF nextCh = "=" THEN Result(Tok("EQ", <<"=", "=">>), p + 2, p)
                    ELSE Result(Tok("ASSIGN", <<ch>>), p + 1, p)
               [] ch = "!" ->
                    IF nextCh = "=" THEN Result(Tok("NOT_EQ", <<"!", "=">>), p + 2, p)
                    ELSE Result(Tok("BANG", <<ch>>), p + 1, p)
               [] ch \in DOMAIN SingleCharType ->
                    Result(Tok(SingleCharType[ch], <<ch>>), p + 1, p)
               [] ch = "\"" ->
                    LET r == readString(s, p + 1)
                    IN  IF r.hang
                        THEN [hang |-> TRUE, token |-> EOF_TOKEN, cursor |-> c, start |-> p]
                        ELSE Result(Tok("STRING", r.lit), r.cursor + 1, p)
               [] OTHER ->
                    IF isLetter(ch)
                    THEN LET r == readIdentifier(s, p)
                         IN  Result(Tok(getTokenTypeFromLiteral(r.lit), r.lit), r.cursor, p)
                    ELSE IF isDigit(ch)
                    THEN LET r == readNumber(s, p)
                         IN  Result(Tok("INT", r.lit), r.cursor, p)
                    \* `cursor: cursor + 1`: counted from the cursor the effect was
                    \* called with, not from cursorPositionAfterWhitespaces
                    ELSE Result(Tok("ILLEGAL", <<ch>>), c + 1, p)

(***************************************************************************)
(* The Lexer class over the module-level stores.                           *)
(***************************************************************************)
RECURSIVE SeqsUpTo(_, _)
SeqsUpTo(S, n) ==
    IF n = 0 THEN {<<>>}
    ELSE LET shorter == SeqsUpTo(S, n - 1)
         IN  shorter \cup {Append(q, x) : q \in {r \in shorter : Len(r) = n - 1}, x \in S}

Inputs == SeqsUpTo(Alphabet, MaxInputLen)

InitLexer == LexerOff /\ ParserOff /\ ReplOff

\* new Lexer(input): initLexer(input) resets the three stores.
LexerNew ==
    /\ lexStatus = "idle"
    /\ \E s \in Inputs : input' = s
    /\ cursor' = 0
    /\ token' = EOF_TOKEN
    /\ lexStatus' = "ok"
    /\ emitted' = <<>>
    /\ UNCHANGED <<lexers, parseVars, replVars>>

LastIsEOF == emitted # <<>> /\ emitted[Len(emitted)].token.type = "EOF"

\* lexer.nextToken(): getNextToken() runs nextTokenFx on ($cursor, $input), its
\* result is stored by setNextTokenResult, and $token.getState() is returned.
NextToken ==
    /\ lexStatus = "ok"
    /\ ~LastIsEOF
    /\ UNCHANGED <<lexers, parseVars, replVars>>
    /\ LET r == nextTokenFx(input, cursor)
       IN  IF r.hang
           THEN /\ lexStatus' = "hang"
                /\ UNCHANGED <<input, cursor, token, emitted>>
           ELSE /\ cursor' = r.cursor
                /\ token' = r.token
                /\ emitted' = Append(emitted, [token |-> r.token, start |-> r.start, end |-> r.cursor])
                /\ UNCHANGED <<input, lexStatus>>

NextLexer == LexerNew \/ NextToken

SpecLexer == InitLexer /\ [][NextLexer]_vars

(***************************************************************************)
(* Several Lexer objects.  The class has no fields: every object reads and *)
(* writes the stores $input, $cursor and $token of the module.             *)
(***************************************************************************)
\* the number of Lexer objects built
MaxLexers == 2

\* the number of nextToken calls made on one Lexer object
MaxTokens == 3

\* the texts the Lexer objects are built over
LexerTexts ==
    { \* f = 7
      <<"f", " ", "=", " ", "7">>,
      \* !n;
      <<"!", "n", ";">>,
      \* 7
      <<"7">> }

\* new Lexer(s), one more object: initLexer(s) resets the three stores
LexersNew(s) ==
    /\ Len(lexers) < MaxLexers
    /\ \A i \in 1 .. Len(lexers) : lexers[i].input # s
    /\ input' = s
    /\ cursor' = 0
    /\ token' = EOF_TOKEN
    /\ lexStatus' = "ok"
    /\ lexers' = Append(lexers, [input |-> s, returned |-> <<>>])
    /\ UNCHANGED <<emitted, parseVars, replVars>>

\* nextToken() of the i-th Lexer object: getNextToken() runs nextTokenFx on
\* the stores, and the object returns $token.getState()
LexersNextToken(i) ==
    /\ lexStatus = "ok"
    /\ Len(lexers[i].returned) < MaxTokens
    /\ UNCHANGED <<input, emitted, parseVars, replVars>>
    /\ LET r == nextTokenFx(input, cursor)
       IN  IF r.hang
           THEN /\ lexStatus' = "hang"
                /\ UNCHANGED <<cursor, token, lexers>>
           ELSE /\ cursor' = r.cursor
                /\ token' = r.token
                /\ lexers' = [lexers EXCEPT ![i].returned = Append(@, r.token)]
                /\ UNCHANGED lexStatus

NextLexers ==
    \/ \E s \in LexerTexts : LexersNew(s)
    \/ \E i \in 1 .. Len(lexers) : LexersNextToken(i)

SpecLexers == InitLexer /\ [][NextLexers]_vars

RECURSIVE Alone(_, _, _)
\* the tokens the first n nextToken calls return on a Lexer over s that is
\* the only one, from cursor c on
Alone(s, c, n) ==
    IF n = 0 THEN <<>>
    ELSE LET r == nextTokenFx(s, c)
         IN  <<r.token>> \o Alone(s, r.cursor, n - 1)

\* C29: Lexer objects are independent: when two Lexer objects are built
\* over different texts and their nextToken calls are interleaved in any
\* order, each object returns the tokens of its own text, as if the other
\* one did not exist.
C29_LexersIndependent ==
    \A i \in 1 .. Len(lexers) :
        lexers[i].returned = Alone(lexers[i].input, 0, Len(lexers[i].returned))


(***************************************************************************)
(* The claims about the lexer.                                             *)
(***************************************************************************)
Tokens(history) == [i \in 1..Len(history) |-> history[i].token]

\* C7: the lexer terminates and never errors: for every input, an unterminated
\* string literal included, each nextToken call returns a token (no host
\* exception, no endless loop), and EOF is returned after finitely many calls
\* (at most one token per character, then EOF).
C7_TerminatesNeverErrors ==
    /\ lexStatus # "hang"
    /\ Len(emitted) <= Len(input) + 1

\* C8: every character that starts no valid token yields exactly one ILLEGAL
\* token whose literal is that character, lexing resumes right after it (also
\* after leading whitespace), and no character of the input is tokenized twice.
C8_OneIllegalPerCharacter ==
    /\ \A i \in 1..Len(emitted) :
          emitted[i].token.type = "ILLEGAL" =>
              /\ emitted[i].token.literal = <<At(input, emitted[i].start)>>
              /\ emitted[i].end = emitted[i].start + 1
    /\ \A i \in 1..Len(emitted) : \A j \in 1..Len(emitted) :
          i < j => emitted[i].end <= emitted[j].start

RefStartsToken == LetterChars \cup DigitChars \cup DOMAIN SingleCharType \cup {"=", "!", "\""}

RECURSIVE RefRunEnd(_, _, _)
RefRunEnd(s, i, S) == IF i < Len(s) /\ s[i + 1] \in S THEN RefRunEnd(s, i + 1, S) ELSE i

RECURSIVE RefQuoteEnd(_, _)
RefQuoteEnd(s, i) == IF i < Len(s) /\ s[i + 1] # "\"" THEN RefQuoteEnd(s, i + 1) ELSE i

RefWord(s, i, j) == IF j <= i THEN <<>> ELSE SubSeq(s, i + 1, j)

RefKeywordType(w) ==
    CASE w = <<"f","n">> -> "FUNCTION"
      [] w = <<"l","e","t">> -> "LET"
      [] w = <<"t","r","u","e">> -> "TRUE"
      [] w = <<"f","a","l","s","e">> -> "FALSE"
      [] w = <<"i","f">> -> "IF"
      [] w = <<"e","l","s","e">> -> "ELSE"
      [] w = <<"r","e","t","u","r","n">> -> "RETURN"
      [] OTHER -> "IDENT"

\* The reference maximal-munch tokenizer, from position i (0-based) on.  A character
\* that starts no token is one ILLEGAL token; a string literal whose closing quote
\* is missing extends to the end of the input.
RECURSIVE RefTokens(_, _)
RefTokens(s, i) ==
    IF i >= Len(s) THEN <<[type |-> "EOF", literal |-> <<>>]>>
    ELSE LET ch == s[i + 1]
             two == i + 1 < Len(s) /\ s[i + 2] = "="
         IN  CASE ch \in WhitespaceChars -> RefTokens(s, i + 1)
               [] ch = "=" /\ two -> <<[type |-> "EQ", literal |-> <<"=", "=">>]>> \o RefTokens(s, i + 2)
               [] ch = "=" /\ ~two -> <<[type |-> "ASSIGN", literal |-> <<"=">>]>> \o RefTokens(s, i + 1)
               [] ch = "!" /\ two -> <<[type |-> "NOT_EQ", literal |-> <<"!", "=">>]>> \o RefTokens(s, i + 2)
               [] ch = "!" /\ ~two -> <<[type |-> "BANG", literal |-> <<"!">>]>> \o RefTokens(s, i + 1)
               [] ch \in DOMAIN SingleCharType ->
                    <<[type |-> SingleCharType[ch], literal |-> <<ch>>]>> \o RefTokens(s, i + 1)
               [] ch \in LetterChars ->
                    LET j == RefRunEnd(s, i, LetterChars)
                    IN  <<[type |-> RefKeywordType(RefWord(s, i, j)), literal |-> RefWord(s, i, j)]>>
                          \o RefTokens(s, j)
               [] ch \in DigitChars ->
                    LET j == RefRunEnd(s, i, DigitChars)
                    IN  <<[type |-> "INT", literal |-> RefWord(s, i, j)]>> \o RefTokens(s, j)
               [] ch = "\"" ->
                    LET j == RefQuoteEnd(s, i + 1)
                    IN  <<[type |-> "STRING", literal |-> RefWord(s, i + 1, j)]>> \o RefTokens(s, j + 1)
               [] OTHER -> <<[type |-> "ILLEGAL", literal |-> <<ch>>]>> \o RefTokens(s, i + 1)

IsPrefix(a, b) == Len(a) <= Len(b) /\ a = SubSeq(b, 1, Len(a))

\* C9: for every input the token sequence of repeated nextToken equals the one of
\* the reference maximal-munch tokenizer: the tokens handed out so far are a
\* prefix of the reference's, and all of them once EOF has been returned.
C9_MatchesReferenceTokenizer ==
    /\ IsPrefix(Tokens(emitted), RefTokens(input, 0))
    /\ LastIsEOF => Tokens(emitted) = RefTokens(input, 0)

(***************************************************************************)
(* The token stream the parser reads.  createLexer / getLexer is a         *)
(* generator over the lexer: it hands out what repeated nextToken calls    *)
(* hand out, the end-of-input token included, and then returns the         *)
(* end-of-input token.                                                     *)
(***************************************************************************)
RECURSIVE lexAll(_, _, _)
lexAll(s, c, acc) ==
    LET r == nextTokenFx(s, c)
    IN  IF r.hang THEN [hang |-> TRUE, tokens |-> acc]
        ELSE IF r.token.type = "EOF" THEN [hang |-> FALSE, tokens |-> Append(acc, r.token)]
        ELSE lexAll(s, r.cursor, Append(acc, r.token))

createLexer(text) ==
    LET l == lexAll(text, 0, <<>>)
    IN  [hang |-> l.hang, yields |-> l.tokens, return |-> EOF_TOKEN]

NoToken == [type |-> "undefined", literal |-> <<>>]

PeekableNext(current, peek) == [defined |-> TRUE, current |-> current, peek |-> peek]

NoPair == [defined |-> FALSE, current |-> NoToken, peek |-> NoToken]

\* peekable(gen): the value of the k-th next() call on the peekable generator.
peekable(gen, k) ==
    LET n == Len(gen.yields)
    IN  IF k <= n
        THEN PeekableNext(gen.yields[k], IF k < n THEN gen.yields[k + 1] ELSE gen.return)
        ELSE IF k = n + 1 THEN PeekableNext(gen.return, NoToken)
        ELSE NoPair

PeekableLexer(gen) == [gen |-> gen, pos |-> 0]

\* lexer.next(): its value and the advanced generator
next(lexer) ==
    [value |-> peekable(lexer.gen, lexer.pos + 1), lexer |-> [lexer EXCEPT !.pos = @ + 1]]

TokenTypeToLiteralMap ==
    [ASSIGN |-> "=", PLUS |-> "+", MINUS |-> "-", BANG |-> "!", ASTERISK |-> "*",
     SLASH |-> "/", LT |-> "<", GT |-> ">", EQ |-> "==", NOT_EQ |-> "!=",
     COMMA |-> ",", SEMICOLON |-> ";", COLON |-> ":", LPAREN |-> "(", RPAREN |-> ")",
     LBRACE |-> "{", RBRACE |-> "}", LBRACKET |-> "[", RBRACKET |-> "]"]

getTokenTypeLiteral(expected) ==
    IF expected \in DOMAIN TokenTypeToLiteralMap THEN TokenTypeToLiteralMap[expected]
    ELSE expected

ExpressionPrecedence ==
    [LOWEST |-> 0, EQUALS |-> 1, LESSGREATER |-> 2, SUM |-> 3, PRODUCT |-> 4, PREFIX |-> 5,
     CALL |-> 6, INDEX |-> 7]

TokenOperatorPrecedences ==
    [EQ |-> ExpressionPrecedence.EQUALS, NOT_EQ |-> ExpressionPrecedence.EQUALS,
     LT |-> ExpressionPrecedence.LESSGREATER, GT |-> ExpressionPrecedence.LESSGREATER,
     PLUS |-> ExpressionPrecedence.SUM, MINUS |-> ExpressionPrecedence.SUM,
     SLASH |-> ExpressionPrecedence.PRODUCT, ASTERISK |-> ExpressionPrecedence.PRODUCT,
     LPAREN |-> ExpressionPrecedence.CALL, LBRACKET |-> ExpressionPrecedence.INDEX]

getPrecedence(tokenType) ==
    IF tokenType \in DOMAIN TokenOperatorPrecedences THEN TokenOperatorPrecedences[tokenType]
    ELSE ExpressionPrecedence.LOWEST

(***************************************************************************)
(* Results of the parse functions: [data, err] tuples of the code, with    *)
(* the generator's position threaded through; "throw" is a host TypeError  *)
(* (a property read on undefined).                                         *)
(***************************************************************************)
NoData == [type |-> "undefined"]

Ok(data, tokenPair, lexer) ==
    [tag |-> "ok", data |-> data, tokenPair |-> tokenPair, error |-> <<>>, lexer |-> lexer]

Fail(error, lexer) ==
    [tag |-> "error", data |-> NoData, tokenPair |-> NoPair, error |-> error, lexer |-> lexer]

Throw(lexer) ==
    [tag |-> "throw", data |-> NoData, tokenPair |-> NoPair, error |-> <<>>, lexer |-> lexer]

\* a failed or thrown result handed on unchanged (`return [, error]`)
Pass(r) == [r EXCEPT !.data = NoData, !.tokenPair = NoPair]

getNextExpectedTokenPair(tokenPair, expectedTokenType, lexer) ==
    IF ~tokenPair.defined THEN Throw(lexer)
    ELSE IF tokenPair.peek.type # expectedTokenType
    THEN Fail(<<"Next token expected to be ", getTokenTypeLiteral(expectedTokenType), ", but found ">>
                \o (IF tokenPair.peek.type = "undefined" THEN <<"no token">> ELSE tokenPair.peek.literal)
                \o <<" instead.">>, lexer)
    ELSE LET n == next(lexer) IN Ok(NoData, n.value, n.lexer)

(***************************************************************************)
(* The nodes of the AST.                                                   *)
(***************************************************************************)
Program(statements) == [type |-> "Program", statements |-> statements]

LetStatement(tok, name, value) == [type |-> "Let", token |-> tok, name |-> name, value |-> value]

ReturnStatement(tok, returnValue) == [type |-> "Return", token |-> tok, returnValue |-> returnValue]

ExpressionStatement(tok, expression) == [type |-> "Expression", token |-> tok, expression |-> expression]

BlockStatement(tok, statements) == [type |-> "Block", token |-> tok, statements |-> statements]

Identifier(tok, value) == [type |-> "Identifier", token |-> tok, value |-> value]

IntegerLiteral(tok, value) == [type |-> "Integer", token |-> tok, value |-> value]

StringLiteral(tok, value) == [type |-> "String", token |-> tok, value |-> value]

BooleanLiteral(tok, value) == [type |-> "Boolean", token |-> tok, value |-> value]

ArrayLiteral(tok, elements) == [type |-> "Array", token |-> tok, elements |-> elements]

IndexExpression(tok, left, index) == [type |-> "Index", token |-> tok, left |-> left, index |-> index]

PrefixExpression(tok, operator, right) ==
    [type |-> "Prefix", token |-> tok, operator |-> operator, right |-> right]

InfixExpression(tok, right, operator, left) ==
    [type |-> "Infix", token |-> tok, right |-> right, operator |-> operator, left |-> left]

IfExpression(tok, condition, consequence, alternative) ==
    [type |-> "If", token |-> tok, condition |-> condition, consequence |-> consequence,
     alternative |-> alternative]

FunctionLiteral(tok, parameters, body) ==
    [type |-> "Function", token |-> tok, parameters |-> parameters, body |-> body]

CallExpression(tok, functionIdentifier, functionArguments) ==
    [type |-> "Call", token |-> tok, functionIdentifier |-> functionIdentifier,
     functionArguments |-> functionArguments]

\* pairs: the Map of key node to value node, in insertion order
HashLiteral(tok, pairs) == [type |-> "Hash", token |-> tok, pairs |-> pairs]

(***************************************************************************)
(* The parser: parseProgram and the Pratt parse functions over the         *)
(* peekable token stream.                                                  *)
(***************************************************************************)
DigitValue ==
    [d \in DigitChars |->
        CASE d = "0" -> 0 [] d = "1" -> 1 [] d = "2" -> 2 [] d = "3" -> 3 [] d = "4" -> 4
          [] d = "5" -> 5 [] d = "6" -> 6 [] d = "7" -> 7 [] d = "8" -> 8 [] d = "9" -> 9]

\* Number.parseInt(literal, 10) of a run of digits
RECURSIVE parseInt(_, _)
parseInt(literal, acc) ==
    IF literal = <<>> THEN acc
    ELSE parseInt(Tail(literal), 10 * acc + DigitValue[Head(literal)])

\* `if (peek?.type === TokenType.SEMICOLON) lexer.next()`
skipSemicolon(tokenPair, lexer) ==
    IF tokenPair.peek.type = "SEMICOLON" THEN next(lexer).lexer ELSE lexer

\* `const [x, err] = f(...); if (err != null) return [, err];` followed by K(x)
Then(r, K(_)) == IF r.tag # "ok" THEN Pass(r) ELSE K(r)

\* `const v = ...;` followed by K(v)
With(v, K(_)) == K(v)

RECURSIVE parseStatement(_, _), parseLetStatement(_, _), parseReturnStatement(_, _),
          parseExpressionStatement(_, _), parseBlockStatement(_, _), parseStatements(_, _, _),
          parseExpression(_, _, _), parseExpressionWithInfix(_, _, _), prefixParser(_, _),
          parseGroupedExpression(_, _), parsePrefixExpression(_, _), parseIfExpression(_, _),
          parseElseExpression(_, _), parseFunctionLiteral(_, _), parseArgumentsList(_, _, _),
          parseExpressionList(_, _), parseArrayLiteral(_, _), parseHashMap(_, _, _),
          parseHashLiteral(_, _), infixParser(_, _, _), parseInfixExpression(_, _, _),
          parseCallExpression(_, _, _), parseIndexExpression(_, _, _)

parseStatement(tokenPair, lexer) ==
    IF ~tokenPair.defined THEN Throw(lexer)
    ELSE CASE tokenPair.current.type = "LET" -> parseLetStatement(tokenPair, lexer)
           [] tokenPair.current.type = "RETURN" -> parseReturnStatement(tokenPair, lexer)
           [] OTHER -> parseExpressionStatement(tokenPair, lexer)

parseLetStatement(tokenPair, lexer) ==
    Then(getNextExpectedTokenPair(tokenPair, "IDENT", lexer), LAMBDA n1 :
      IF ~n1.tokenPair.defined THEN Throw(n1.lexer)
      ELSE Then(getNextExpectedTokenPair(n1.tokenPair, "ASSIGN", n1.lexer), LAMBDA n2 :
        With(next(n2.lexer), LAMBDA e :
          Then(parseExpression(e.value, ExpressionPrecedence.LOWEST, e.lexer), LAMBDA x :
            Ok(LetStatement(tokenPair.current,
                            Identifier(n1.tokenPair.current, n1.tokenPair.current.literal),
                            x.data),
               NoPair, skipSemicolon(x.tokenPair, x.lexer))))))

parseReturnStatement(tokenPair, lexer) ==
    With(next(lexer), LAMBDA e :
      Then(parseExpression(e.value, ExpressionPrecedence.LOWEST, e.lexer), LAMBDA x :
        Ok(ReturnStatement(tokenPair.current, x.data), NoPair,
           skipSemicolon(x.tokenPair, x.lexer))))

parseExpressionStatement(tokenPair, lexer) ==
    Then(parseExpression(tokenPair, ExpressionPrecedence.LOWEST, lexer), LAMBDA x :
      Ok(ExpressionStatement(tokenPair.current, x.data), NoPair,
         skipSemicolon(x.tokenPair, x.lexer)))

parseBlockStatement(tokenPair, lexer) ==
    Then(getNextExpectedTokenPair(tokenPair, "LBRACE", lexer), LAMBDA n1 :
      IF ~n1.tokenPair.defined THEN Throw(n1.lexer)
      ELSE With(next(n1.lexer), LAMBDA e :
        Then(parseStatements(e.value, e.lexer, <<>>), LAMBDA r :
          Ok(BlockStatement(n1.tokenPair.current, r.data), r.tokenPair, r.lexer))))

parseStatements(tokenPair, lexer, statements) ==
    IF ~tokenPair.defined THEN Throw(lexer)
    ELSE IF tokenPair.current.type = "RBRACE" THEN Ok(statements, tokenPair, lexer)
    ELSE Then(parseStatement(tokenPair, lexer), LAMBDA r :
           With(next(r.lexer), LAMBDA e :
             parseStatements(e.value, e.lexer, Append(statements, r.data))))

parseExpression(tokenPair, precedence, lexer) ==
    IF ~tokenPair.defined THEN Throw(lexer)
    ELSE IF tokenPair.current.type \notin
              {"IDENT", "INT", "STRING", "BANG", "MINUS", "TRUE", "FALSE", "LPAREN", "IF",
               "FUNCTION", "LBRACKET", "LBRACE"}
    THEN Fail(<<"No prefix parser found for ", tokenPair.current.type, ".">>, lexer)
    ELSE Then(prefixParser(tokenPair, lexer), LAMBDA r :
           parseExpressionWithInfix(r, precedence, r.lexer))

parseExpressionWithInfix(state, precedence, lexer) ==
    LET tokenPair == state.tokenPair
    IN  IF ~tokenPair.defined THEN Throw(lexer)
        ELSE IF \/ tokenPair.peek.type = "undefined"
                \/ tokenPair.peek.type = "SEMICOLON"
                \/ precedence >= getPrecedence(tokenPair.peek.type)
        THEN Ok(state.data, tokenPair, lexer)
        ELSE IF tokenPair.peek.type \notin
                  {"EQ", "NOT_EQ", "LT", "GT", "PLUS", "MINUS", "SLASH", "ASTERISK", "LPAREN",
                   "LBRACKET"}
        THEN Ok(state.data, tokenPair, lexer)
        ELSE With(next(lexer), LAMBDA e :
               Then(infixParser(e.value, state.data, e.lexer), LAMBDA r :
                 parseExpressionWithInfix(r, precedence, r.lexer)))

parseIdentifier(tokenPair, lexer) ==
    Ok(Identifier(tokenPair.current, tokenPair.current.literal), tokenPair, lexer)

parseIntegerLiteral(tokenPair, lexer) ==
    LET tok == tokenPair.current
    IN  IF tok.literal = <<>> \/ \E i \in 1..Len(tok.literal) : tok.literal[i] \notin DigitChars
        THEN Fail(<<"Could not parse ", "NaN", " as integer">>, lexer)
        ELSE Ok(IntegerLiteral(tok, parseInt(tok.literal, 0)), tokenPair, lexer)

parseStringLiteral(tokenPair, lexer) ==
    Ok(StringLiteral(tokenPair.current, tokenPair.current.literal), tokenPair, lexer)

BooleanTypeToNativeMap == [TRUE |-> TRUE, FALSE |-> FALSE]

parseBooleanExpression(tokenPair, lexer) ==
    IF tokenPair.current.type \notin DOMAIN BooleanTypeToNativeMap
    THEN Fail(<<"Could not parse ", "undefined", " as boolean">>, lexer)
    ELSE Ok(BooleanLiteral(tokenPair.current, BooleanTypeToNativeMap[tokenPair.current.type]),
            tokenPair, lexer)

parseGroupedExpression(ignored, lexer) ==
    With(next(lexer), LAMBDA e :
      Then(parseExpression(e.value, ExpressionPrecedence.LOWEST, e.lexer), LAMBDA x :
        Then(getNextExpectedTokenPair(x.tokenPair, "RPAREN", x.lexer), LAMBDA c :
          Ok(x.data, c.tokenPair, c.lexer))))

parsePrefixExpression(tokenPair, lexer) ==
    With(next(lexer), LAMBDA e :
      Then(parseExpression(e.value, ExpressionPrecedence.PREFIX, e.lexer), LAMBDA x :
        Ok(PrefixExpression(tokenPair.current, tokenPair.current.literal, x.data),
           x.tokenPair, x.lexer)))

parseIfExpression(tokenPair, lexer) ==
    Then(getNextExpectedTokenPair(tokenPair, "LPAREN", lexer), LAMBDA n1 :
      With(next(n1.lexer), LAMBDA e :
        Then(parseExpression(e.value, ExpressionPrecedence.LOWEST, e.lexer), LAMBDA x :
          Then(getNextExpectedTokenPair(x.tokenPair, "RPAREN", x.lexer), LAMBDA n2 :
            Then(parseBlockStatement(n2.tokenPair, n2.lexer), LAMBDA b :
              Then(parseElseExpression(b.tokenPair, b.lexer), LAMBDA a :
                Ok(IfExpression(tokenPair.current, x.data, b.data, a.data),
                   a.tokenPair, a.lexer)))))))

parseElseExpression(tokenPair, lexer) ==
    IF ~tokenPair.defined THEN Throw(lexer)
    ELSE IF tokenPair.peek.type # "ELSE" THEN Ok(NoData, tokenPair, lexer)
    ELSE With(next(lexer), LAMBDA e :
           Then(parseBlockStatement(e.value, e.lexer), LAMBDA b : b))

\* Every token it is handed becomes a parameter, whatever its type.
RECURSIVE parseFunctionParametersList(_, _, _)
parseFunctionParametersList(tokenPair, lexer, parameters) ==
    IF ~tokenPair.defined THEN Throw(lexer)
    ELSE LET identifier == Identifier(tokenPair.current, tokenPair.current.literal)
             ps == Append(parameters, identifier)
         IN  IF tokenPair.peek.type # "COMMA" THEN Ok(ps, tokenPair, lexer)
             ELSE With(next(next(lexer).lexer), LAMBDA e :
                    parseFunctionParametersList(e.value, e.lexer, ps))

parseFunctionParameters(tokenPair, lexer) ==
    Then(getNextExpectedTokenPair(tokenPair, "LPAREN", lexer), LAMBDA n1 :
      With(next(n1.lexer), LAMBDA e :
        IF ~e.value.defined THEN Throw(e.lexer)
        ELSE IF e.value.current.type = "RPAREN" THEN Ok(<<>>, e.value, e.lexer)
        ELSE Then(parseFunctionParametersList(e.value, e.lexer, <<>>), LAMBDA l :
               Then(getNextExpectedTokenPair(l.tokenPair, "RPAREN", l.lexer), LAMBDA c :
                 Ok(l.data, c.tokenPair, c.lexer)))))

parseFunctionLiteral(tokenPair, lexer) ==
    Then(parseFunctionParameters(tokenPair, lexer), LAMBDA r :
      Then(parseBlockStatement(r.tokenPair, r.lexer), LAMBDA b :
        Ok(FunctionLiteral(tokenPair.current, r.data, b.data), b.tokenPair, b.lexer)))

parseArgumentsList(tokenPair, lexer, argumentsList) ==
    Then(parseExpression(tokenPair, ExpressionPrecedence.LOWEST, lexer), LAMBDA x :
      IF x.tokenPair.peek.type # "COMMA"
      THEN Ok(Append(argumentsList, x.data), x.tokenPair, x.lexer)
      ELSE With(next(next(x.lexer).lexer), LAMBDA e :
             parseArgumentsList(e.value, e.lexer, Append(argumentsList, x.data))))

parseExpressionList(closerToken, lexer) ==
    With(next(lexer), LAMBDA e :
      IF ~e.value.defined THEN Throw(e.lexer)
      ELSE IF e.value.current.type = closerToken THEN Ok(<<>>, e.value, e.lexer)
      ELSE Then(parseArgumentsList(e.value, e.lexer, <<>>), LAMBDA a :
             Then(getNextExpectedTokenPair(a.tokenPair, closerToken, a.lexer), LAMBDA c :
               Ok(a.data, c.tokenPair, c.lexer))))

parseArrayLiteral(tokenPair, lexer) ==
    Then(parseExpressionList("RBRACKET", lexer), LAMBDA r :
      Ok(ArrayLiteral(tokenPair.current, r.data), r.tokenPair, r.lexer))

parseHashMap(tokenPair, lexer, pairs) ==
    IF ~tokenPair.defined THEN Throw(lexer)
    ELSE IF tokenPair.peek.type = "RBRACE" THEN Ok(pairs, tokenPair, lexer)
    ELSE With(next(lexer), LAMBDA e :
      Then(parseExpression(e.value, ExpressionPrecedence.LOWEST, e.lexer), LAMBDA k :
        Then(getNextExpectedTokenPair(k.tokenPair, "COLON", k.lexer), LAMBDA c :
          With(next(c.lexer), LAMBDA f :
            Then(parseExpression(f.value, ExpressionPrecedence.LOWEST, f.lexer), LAMBDA v :
              IF v.tokenPair.peek.type # "RBRACE"
              THEN Then(getNextExpectedTokenPair(v.tokenPair, "COMMA", v.lexer), LAMBDA m :
                     parseHashMap(m.tokenPair, m.lexer, Append(pairs, <<k.data, v.data>>)))
              ELSE parseHashMap(v.tokenPair, v.lexer, Append(pairs, <<k.data, v.data>>)))))))

parseHashLiteral(tokenPair, lexer) ==
    Then(parseHashMap(tokenPair, lexer, <<>>), LAMBDA h :
      Then(getNextExpectedTokenPair(h.tokenPair, "RBRACE", h.lexer), LAMBDA c :
        Ok(HashLiteral(tokenPair.current, h.data), c.tokenPair, c.lexer)))

\* PrefixParserFns[tokenPair.current.type](tokenPair, lexer)
prefixParser(tokenPair, lexer) ==
    LET t == tokenPair.current.type
    IN  CASE t = "IDENT" -> parseIdentifier(tokenPair, lexer)
          [] t = "INT" -> parseIntegerLiteral(tokenPair, lexer)
          [] t = "STRING" -> parseStringLiteral(tokenPair, lexer)
          [] t \in {"BANG", "MINUS"} -> parsePrefixExpression(tokenPair, lexer)
          [] t \in {"TRUE", "FALSE"} -> parseBooleanExpression(tokenPair, lexer)
          [] t = "LPAREN" -> parseGroupedExpression(tokenPair, lexer)
          [] t = "IF" -> parseIfExpression(tokenPair, lexer)
          [] t = "FUNCTION" -> parseFunctionLiteral(tokenPair, lexer)
          [] t = "LBRACKET" -> parseArrayLiteral(tokenPair, lexer)
          [] t = "LBRACE" -> parseHashLiteral(tokenPair, lexer)

\* an infix parser that hands the rank below its operator's to the right operand
parseInfixExpressionRightAssociative(tokenPair, left, lexer) ==
    With(next(lexer), LAMBDA e :
      Then(parseExpression(e.value, getPrecedence(tokenPair.current.type) - 1, e.lexer),
           LAMBDA x :
        Ok(InfixExpression(tokenPair.current, x.data, tokenPair.current.literal, left),
           x.tokenPair, x.lexer)))

parseInfixExpression(tokenPair, left, lexer) ==
    With(next(lexer), LAMBDA e :
      Then(parseExpression(e.value, getPrecedence(tokenPair.current.type), e.lexer), LAMBDA x :
        Ok(InfixExpression(tokenPair.current, x.data, tokenPair.current.literal, left),
           x.tokenPair, x.lexer)))

parseCallExpression(tokenPair, functionIdentifier, lexer) ==
    Then(parseExpressionList("RPAREN", lexer), LAMBDA r :
      Ok(CallExpression(tokenPair.current, functionIdentifier, r.data), r.tokenPair, r.lexer))

parseIndexExpression(tokenPair, left, lexer) ==
    With(next(lexer), LAMBDA e :
      Then(parseExpression(e.value, ExpressionPrecedence.LOWEST, e.lexer), LAMBDA x :
        Then(getNextExpectedTokenPair(x.tokenPair, "RBRACKET", x.lexer), LAMBDA c :
          Ok(IndexExpression(tokenPair.current, left, x.data), c.tokenPair, c.lexer))))

\* InfixParserFns[tokenPair.peek.type](nextTokenPair, expression, lexer)
infixParser(tokenPair, left, lexer) ==
    IF ~tokenPair.defined THEN Throw(lexer)
    ELSE CASE tokenPair.current.type = "LPAREN" -> parseCallExpression(tokenPair, left, lexer)
           [] tokenPair.current.type = "LBRACKET" -> parseIndexExpression(tokenPair, left, lexer)
           [] OTHER -> parseInfixExpression(tokenPair, left, lexer)

RECURSIVE parseProgramLoop(_, _, _, _, _)

\* a round that gives up at the first failed parseStatement
parseProgramRoundFatal(r, lexer, statements, errors, log) ==
    LET round == [from |-> lexer.pos, to |-> r.lexer.pos, tag |-> r.tag, error |-> r.error]
    IN  IF r.tag = "throw"
        THEN [tag |-> "throw", program |-> NoData, errors |-> errors, log |-> Append(log, round)]
        ELSE IF r.tag = "error"
        THEN [tag |-> "errors", program |-> NoData, errors |-> Append(errors, r.error),
              log |-> Append(log, round)]
        ELSE With(next(r.lexer), LAMBDA e :
               parseProgramLoop(e.value, e.lexer, Append(statements, r.data), errors,
                                Append(log, round)))

\* One round of the loop of parseProgram after its parseStatement call r, which
\* started at `lexer`; the log keeps where each round started and stopped in
\* the token stream and how it ended.
parseProgramRound(r, lexer, statements, errors, log) ==
    LET round == [from |-> lexer.pos, to |-> r.lexer.pos, tag |-> r.tag, error |-> r.error]
    IN  IF r.tag = "throw"
        THEN [tag |-> "throw", program |-> NoData, errors |-> errors, log |-> Append(log, round)]
        ELSE With(next(r.lexer), LAMBDA e :
               IF r.tag = "error"
               THEN parseProgramLoop(e.value, e.lexer, statements, Append(errors, r.error),
                                     Append(log, round))
               ELSE parseProgramLoop(e.value, e.lexer, Append(statements, r.data), errors,
                                     Append(log, round)))

\* The loop of parseProgram from tokenPair on, and its return.
parseProgramLoop(tokenPair, lexer, statements, errors, log) ==
    IF ~tokenPair.defined
    THEN [tag |-> "throw", program |-> NoData, errors |-> errors, log |-> log]
    ELSE IF tokenPair.current.type = "EOF"
    THEN IF errors # <<>>
         THEN [tag |-> "errors", program |-> NoData, errors |-> errors, log |-> log]
         ELSE [tag |-> "ok", program |-> Program(statements), errors |-> <<>>, log |-> log]
    ELSE parseProgramRound(parseStatement(tokenPair, lexer), lexer, statements, errors, log)

parseProgram(gen) ==
    With(next(PeekableLexer(gen)), LAMBDA e :
      parseProgramLoop(e.value, e.lexer, <<>>, <<>>, <<>>))

(***************************************************************************)
(* The Parser class: the parser that keeps currentToken and peekToken as   *)
(* fields and reads the Lexer class.  p is the state of the object: the    *)
(* text and cursor of its lexer, the two tokens, the errors, the number of *)
(* nextToken calls made, and `hang` once a loop of it can no longer end.   *)
(* A parse method hands back the state and its value (NoData: undefined).  *)
(***************************************************************************)
Parsed(p, data) == [p |-> p, data |-> data]

pushError(p, message) == [p EXCEPT !.errors = Append(@, message)]

Parser_nextToken(p) ==
    IF p.hang THEN p
    ELSE LET r == nextTokenFx(p.input, p.cursor)
         IN  IF r.hang THEN [p EXCEPT !.hang = TRUE]
             ELSE [p EXCEPT !.currentToken = p.peekToken, !.peekToken = r.token,
                            !.cursor = r.cursor, !.advances = @ + 1]

\* new Parser(new Lexer(text))
Parser_new(text) ==
    Parser_nextToken(Parser_nextToken(
        [input |-> text, cursor |-> 0, currentToken |-> NoToken, peekToken |-> NoToken,
         errors |-> <<>>, hang |-> FALSE, advances |-> 0]))

Parser_expectPeek(p, tokenType) ==
    IF p.peekToken.type # tokenType
    THEN [ok |-> FALSE,
          p |-> pushError(p, <<"Next token expected to be ", tokenType, ", but found ",
                               p.peekToken.type, " instead.">>)]
    ELSE [ok |-> TRUE, p |-> Parser_nextToken(p)]

Parser_peekPrecedence(p) == getPrecedence(p.peekToken.type)

Parser_currentPrecedence(p) == getPrecedence(p.currentToken.type)

\* `if (this.peekToken.type === TokenType.SEMICOLON) this.nextToken()`
Parser_skipSemicolon(p) ==
    IF p.peekToken.type = "SEMICOLON" THEN Parser_nextToken(p) ELSE p

RECURSIVE Parser_parseProgramLoop(_, _), Parser_parseStatement(_),
          Parser_parseLetStatement(_), Parser_parseReturnStatement(_),
          Parser_parseExpressionStatement(_), Parser_parseExpression(_, _),
          Parser_parseExpressionLoop(_, _, _), Parser_prefixParser(_),
          Parser_infixParser(_, _), Parser_parseGroupedExpression(_),
          Parser_parseIfExpression(_), Parser_parseBlockStatement(_),
          Parser_parseBlockStatementLoop(_, _, _), Parser_parseFunctionLiteral(_),
          Parser_parseCallExpression(_, _), Parser_parseCallArguments(_),
          Parser_parseCallArgumentsLoop(_, _), Parser_parsePrefixExpression(_),
          Parser_parseInfixExpression(_, _)

\* the while loop of Parser.parseProgram
Parser_parseProgramLoop(p, statements) ==
    IF p.hang THEN Parsed(p, NoData)
    ELSE IF p.currentToken.type = "EOF" THEN Parsed(p, Program(statements))
    ELSE With(Parser_parseStatement(p), LAMBDA r :
           Parser_parseProgramLoop(Parser_nextToken(r.p),
               IF r.data # NoData THEN Append(statements, r.data) ELSE statements))

Parser_parseProgram(p) == Parser_parseProgramLoop(p, <<>>)

Parser_parseStatement(p) ==
    CASE p.currentToken.type = "LET" -> Parser_parseLetStatement(p)
      [] p.currentToken.type = "RETURN" -> Parser_parseReturnStatement(p)
      [] OTHER -> Parser_parseExpressionStatement(p)

Parser_parseLetStatement(p) ==
    With(Parser_expectPeek(p, "IDENT"), LAMBDA n1 :
      IF ~n1.ok THEN Parsed(n1.p, NoData)
      ELSE With(Parser_expectPeek(n1.p, "ASSIGN"), LAMBDA n2 :
        IF ~n2.ok THEN Parsed(n2.p, NoData)
        ELSE With(Parser_parseExpression(Parser_nextToken(n2.p), ExpressionPrecedence.LOWEST),
               LAMBDA x :
          IF x.data = NoData THEN x
          ELSE Parsed(Parser_skipSemicolon(x.p),
                      LetStatement(p.currentToken,
                                   Identifier(n1.p.currentToken, n1.p.currentToken.literal),
                                   x.data)))))

Parser_parseReturnStatement(p) ==
    With(Parser_parseExpression(Parser_nextToken(p), ExpressionPrecedence.LOWEST), LAMBDA x :
      IF x.data = NoData THEN x
      ELSE Parsed(Parser_skipSemicolon(x.p), ReturnStatement(p.currentToken, x.data)))

Parser_parseExpressionStatement(p) ==
    With(Parser_parseExpression(p, ExpressionPrecedence.LOWEST), LAMBDA x :
      Parsed(Parser_skipSemicolon(x.p),
             IF x.data = NoData THEN NoData ELSE ExpressionStatement(p.currentToken, x.data)))

Parser_parseExpression(p, precedence) ==
    IF p.hang THEN Parsed(p, NoData)
    ELSE IF p.currentToken.type \notin
              {"IDENT", "INT", "BANG", "MINUS", "TRUE", "FALSE", "LPAREN", "IF", "FUNCTION"}
    THEN Parsed(pushError(p, <<"No prefix parser found for ", p.currentToken.type, ".">>),
                NoData)
    ELSE With(Parser_prefixParser(p), LAMBDA l :
           Parser_parseExpressionLoop(l.p, l.data, precedence))

\* the while loop of Parser.parseExpression
Parser_parseExpressionLoop(p, leftExpression, precedence) ==
    IF \/ p.hang
       \/ ~(p.peekToken.type # "SEMICOLON" /\ precedence < Parser_peekPrecedence(p))
    THEN Parsed(p, leftExpression)
    ELSE IF \/ p.peekToken.type \notin
                 {"EQ", "NOT_EQ", "LT", "GT", "PLUS", "MINUS", "SLASH", "ASTERISK", "LPAREN"}
            \/ leftExpression = NoData
    THEN Parsed(p, leftExpression)
    ELSE With(Parser_infixParser(Parser_nextToken(p), leftExpression), LAMBDA r :
           Parser_parseExpressionLoop(r.p, r.data, precedence))

Parser_parseIdentifier(p) ==
    Parsed(p, Identifier(p.currentToken, p.currentToken.literal))

Parser_parseIntegerLiteral(p) ==
    LET tok == p.currentToken
    IN  IF tok.literal = <<>> \/ \E i \in 1..Len(tok.literal) : tok.literal[i] \notin DigitChars
        THEN Parsed(pushError(p, <<"Could not parse ", "NaN", " as integer">>), NoData)
        ELSE Parsed(p, IntegerLiteral(tok, parseInt(tok.literal, 0)))

Parser_parseBooleanExpression(p) ==
    IF p.currentToken.type \notin {"TRUE", "FALSE"}
    THEN Parsed(pushError(p, <<"Could not parse ", "undefined", " as boolean">>), NoData)
    ELSE Parsed(p, BooleanLiteral(p.currentToken, p.currentToken.type = "TRUE"))

Parser_parseGroupedExpression(p) ==
    With(Parser_parseExpression(Parser_nextToken(p), ExpressionPrecedence.LOWEST), LAMBDA x :
      With(Parser_expectPeek(x.p, "RPAREN"), LAMBDA c :
        Parsed(c.p, IF c.ok THEN x.data ELSE NoData)))

\* the else branch of Parser.parseIfExpression, after its consequence b
Parser_parseElse(p, tok, condition, b) ==
    IF b.data = NoData THEN b
    ELSE IF b.p.peekToken.type # "ELSE"
    THEN Parsed(b.p, IfExpression(tok, condition, b.data, NoData))
    ELSE With(Parser_parseBlockStatement(Parser_nextToken(b.p)), LAMBDA a :
           Parsed(a.p, IfExpression(tok, condition, b.data, a.data)))

Parser_parseIfExpression(p) ==
    With(Parser_expectPeek(p, "LPAREN"), LAMBDA n1 :
      IF ~n1.ok THEN Parsed(n1.p, NoData)
      ELSE With(Parser_parseExpression(Parser_nextToken(n1.p), ExpressionPrecedence.LOWEST),
             LAMBDA x :
        IF x.data = NoData THEN x
        ELSE With(Parser_expectPeek(x.p, "RPAREN"), LAMBDA n2 :
          IF ~n2.ok THEN Parsed(n2.p, NoData)
          ELSE Parser_parseElse(p, p.currentToken, x.data,
                                Parser_parseBlockStatement(n2.p)))))

\* a loop of Parser.parseBlockStatement that leaves the parser where it was:
\* at the end of the text currentToken and peekToken are both EOF, parseStatement
\* adds an error and no statement, and nextToken reads EOF again
Parser_atFixedPoint(p) == p.currentToken.type = "EOF" /\ p.peekToken.type = "EOF"

\* the while loop of Parser.parseBlockStatement
Parser_parseBlockStatementLoop(p, tok, statements) ==
    IF p.hang THEN Parsed(p, NoData)
    ELSE IF p.currentToken.type = "RBRACE" THEN Parsed(p, BlockStatement(tok, statements))
    ELSE IF Parser_atFixedPoint(p) THEN Parsed([p EXCEPT !.hang = TRUE], NoData)
    ELSE With(Parser_parseStatement(p), LAMBDA r :
           Parser_parseBlockStatementLoop(Parser_nextToken(r.p), tok,
               IF r.data # NoData THEN Append(statements, r.data) ELSE statements))

Parser_parseBlockStatement(p) ==
    With(Parser_expectPeek(p, "LBRACE"), LAMBDA n1 :
      IF ~n1.ok THEN Parsed(n1.p, NoData)
      ELSE Parser_parseBlockStatementLoop(Parser_nextToken(n1.p), n1.p.currentToken, <<>>))

\* the while loop of Parser.parseFunctionParameters
RECURSIVE Parser_parseFunctionParametersLoop(_, _)
Parser_parseFunctionParametersLoop(p, identifiers) ==
    IF p.hang \/ p.peekToken.type # "COMMA" THEN Parsed(p, identifiers)
    ELSE With(Parser_nextToken(Parser_nextToken(p)), LAMBDA q :
           Parser_parseFunctionParametersLoop(q,
               Append(identifiers, Identifier(q.currentToken, q.currentToken.literal))))

Parser_parseFunctionParameters(p) ==
    With(Parser_expectPeek(p, "LPAREN"), LAMBDA n1 :
      IF ~n1.ok THEN Parsed(n1.p, NoData)
      ELSE With(Parser_nextToken(n1.p), LAMBDA q :
        IF q.currentToken.type = "RPAREN" THEN Parsed(q, <<>>)
        ELSE With(Parser_parseFunctionParametersLoop(q,
                      <<Identifier(q.currentToken, q.currentToken.literal)>>), LAMBDA l :
          With(Parser_expectPeek(l.p, "RPAREN"), LAMBDA c :
            Parsed(c.p, IF c.ok THEN l.data ELSE NoData)))))

Parser_parseFunctionLiteral(p) ==
    With(Parser_parseFunctionParameters(p), LAMBDA r :
      IF r.data = NoData THEN r
      ELSE With(Parser_parseBlockStatement(r.p), LAMBDA b :
        Parsed(b.p, IF b.data = NoData THEN NoData
                    ELSE FunctionLiteral(p.currentToken, r.data, b.data))))

\* the while loop of Parser.parseCallArguments
Parser_parseCallArgumentsLoop(p, callArguments) ==
    IF p.hang THEN Parsed(p, NoData)
    ELSE IF p.peekToken.type # "COMMA"
    THEN With(Parser_expectPeek(p, "RPAREN"), LAMBDA c :
           Parsed(c.p, IF c.ok THEN callArguments ELSE NoData))
    ELSE With(Parser_parseExpression(Parser_nextToken(Parser_nextToken(p)),
                                     ExpressionPrecedence.LOWEST), LAMBDA x :
           IF x.data = NoData THEN x
           ELSE Parser_parseCallArgumentsLoop(x.p, Append(callArguments, x.data)))

Parser_parseCallArguments(p) ==
    IF p.peekToken.type = "RPAREN" THEN Parsed(Parser_nextToken(p), <<>>)
    ELSE With(Parser_parseExpression(Parser_nextToken(p), ExpressionPrecedence.LOWEST),
           LAMBDA x :
      IF x.data = NoData THEN x
      ELSE Parser_parseCallArgumentsLoop(x.p, <<x.data>>))

Parser_parseCallExpression(p, functionIdentifier) ==
    With(Parser_parseCallArguments(p), LAMBDA r :
      Parsed(r.p, IF r.data = NoData THEN NoData
                  ELSE CallExpression(p.currentToken, functionIdentifier, r.data)))

Parser_parsePrefixExpression(p) ==
    With(Parser_parseExpression(Parser_nextToken(p), ExpressionPrecedence.PREFIX), LAMBDA x :
      Parsed(x.p, IF x.data = NoData THEN NoData
                  ELSE PrefixExpression(p.currentToken, p.currentToken.literal, x.data)))

Parser_parseInfixExpression(p, left) ==
    With(Parser_parseExpression(Parser_nextToken(p), Parser_currentPrecedence(p)), LAMBDA x :
      Parsed(x.p, IF x.data = NoData THEN NoData
                  ELSE InfixExpression(p.currentToken, x.data, p.currentToken.literal, left)))

\* this.prefixParserFns[this.currentToken.type]()
Parser_prefixParser(p) ==
    LET t == p.currentToken.type
    IN  CASE t = "IDENT" -> Parser_parseIdentifier(p)
          [] t = "INT" -> Parser_parseIntegerLiteral(p)
          [] t \in {"BANG", "MINUS"} -> Parser_parsePrefixExpression(p)
          [] t \in {"TRUE", "FALSE"} -> Parser_parseBooleanExpression(p)
          [] t = "LPAREN" -> Parser_parseGroupedExpression(p)
          [] t = "IF" -> Parser_parseIfExpression(p)
          [] t = "FUNCTION" -> Parser_parseFunctionLiteral(p)

\* this.infixParserFns[type](leftExpression), called after nextToken
Parser_infixParser(p, left) ==
    IF p.currentToken.type = "LPAREN" THEN Parser_parseCallExpression(p, left)
    ELSE Parser_parseInfixExpression(p, left)

(***************************************************************************)
(* The values of the object system.  A JavaScript number is a finite       *)
(* integer, a negative zero, an infinity or NaN (the programs of the model *)
(* stay far below 2^53, where doubles are exact).  Arrays, hashes and      *)
(* functions carry the identity of the object (`==` compares references).  *)
(***************************************************************************)
Fin(n) == [k |-> "fin", n |-> n]

NegZero == [k |-> "-0", n |-> 0]

Infinity == [k |-> "inf", n |-> 0]

NegInfinity == [k |-> "-inf", n |-> 0]

NaN == [k |-> "nan", n |-> 0]

IsZero(a) == a.k = "-0" \/ (a.k = "fin" /\ a.n = 0)

IsNegative(a) == a.k \in {"-0", "-inf"} \/ (a.k = "fin" /\ a.n < 0)

IsInfinite(a) == a.k \in {"inf", "-inf"}

Abs(n) == IF n < 0 THEN -n ELSE n

\* -a
NumNeg(a) ==
    CASE a.k = "fin" -> IF a.n = 0 THEN NegZero ELSE Fin(-a.n)
      [] a.k = "-0" -> Fin(0)
      [] a.k = "inf" -> NegInfinity
      [] a.k = "-inf" -> Infinity
      [] OTHER -> NaN

\* a + b
NumAdd(a, b) ==
    CASE a.k = "nan" \/ b.k = "nan" -> NaN
      [] IsInfinite(a) /\ IsInfinite(b) -> IF a.k = b.k THEN a ELSE NaN
      [] IsInfinite(a) -> a
      [] IsInfinite(b) -> b
      [] a.k = "-0" /\ b.k = "-0" -> NegZero
      [] OTHER -> Fin(a.n + b.n)

\* a - b
NumSub(a, b) == NumAdd(a, NumNeg(b))

\* a * b
NumMul(a, b) ==
    LET negative == IsNegative(a) # IsNegative(b)
    IN  CASE a.k = "nan" \/ b.k = "nan" -> NaN
          [] (IsInfinite(a) /\ IsZero(b)) \/ (IsZero(a) /\ IsInfinite(b)) -> NaN
          [] IsInfinite(a) \/ IsInfinite(b) -> IF negative THEN NegInfinity ELSE Infinity
          [] IsZero(a) \/ IsZero(b) -> IF negative THEN NegZero ELSE Fin(0)
          [] OTHER -> Fin(a.n * b.n)

\* leftValue / rightValue truncated toward zero, as Math.trunc would
NumTruncDiv(a, b) ==
    LET negative == IsNegative(a) # IsNegative(b)
    IN  CASE a.k = "nan" \/ b.k = "nan" -> NaN
          [] IsInfinite(a) /\ IsInfinite(b) -> NaN
          [] IsZero(a) /\ IsZero(b) -> NaN
          [] IsInfinite(a) \/ IsZero(b) -> IF negative THEN NegInfinity ELSE Infinity
          [] IsInfinite(b) \/ IsZero(a) -> IF negative THEN NegZero ELSE Fin(0)
          [] OTHER ->
                LET q == Abs(a.n) \div Abs(b.n)
                IN  IF ~negative THEN Fin(q) ELSE IF q = 0 THEN NegZero ELSE Fin(-q)

\* Math.floor(a / b)
NumFloorDiv(a, b) ==
    LET negative == IsNegative(a) # IsNegative(b)
    IN  CASE a.k = "nan" \/ b.k = "nan" -> NaN
          [] IsInfinite(a) /\ IsInfinite(b) -> NaN
          [] IsZero(a) /\ IsZero(b) -> NaN
          [] IsInfinite(a) \/ IsZero(b) -> IF negative THEN NegInfinity ELSE Infinity
          [] IsInfinite(b) \/ IsZero(a) -> IF negative THEN NegZero ELSE Fin(0)
          [] OTHER ->
                LET q == Abs(a.n) \div Abs(b.n)
                    exact == Abs(a.n) % Abs(b.n) = 0
                IN  IF ~negative THEN Fin(q)
                    ELSE IF exact THEN Fin(-q) ELSE Fin(-q - 1)

\* a < b
NumLt(a, b) ==
    CASE a.k = "nan" \/ b.k = "nan" -> FALSE
      [] a.k = "-inf" -> b.k # "-inf"
      [] b.k = "inf" -> a.k # "inf"
      [] a.k = "inf" \/ b.k = "-inf" -> FALSE
      [] OTHER -> a.n < b.n

\* a == b
NumEq(a, b) ==
    CASE a.k = "nan" \/ b.k = "nan" -> FALSE
      [] IsInfinite(a) \/ IsInfinite(b) -> a.k = b.k
      [] OTHER -> a.n = b.n

\* `${a}`
NumToString(a) ==
    CASE a.k = "fin" -> ToString(a.n)
      [] a.k = "-0" -> "0"
      [] a.k = "inf" -> "Infinity"
      [] a.k = "-inf" -> "-Infinity"
      [] OTHER -> "NaN"

Integer(value) == [type |-> "INTEGER", value |-> value]

String(value) == [type |-> "STRING", value |-> value]

Boolean(value) == [type |-> "BOOLEAN", value |-> value]

TRUE_ == Boolean(TRUE)

FALSE_ == Boolean(FALSE)

NULL == [type |-> "NULL"]

Return(value, id) == [type |-> "RETURN", value |-> value, id |-> id]

Error(message) == [type |-> "ERROR", message |-> message]

Function(params, body, env, id) ==
    [type |-> "FUNCTION", params |-> params, body |-> body, env |-> env, id |-> id]

Builtin(name) == [type |-> "BUILTIN", name |-> name]

Array(elements, id) == [type |-> "ARRAY", elements |-> elements, id |-> id]

Hash(pairs, id) == [type |-> "HASH", pairs |-> pairs, id |-> id]

\* a host exception thrown while evaluating (a TypeError)
Thrown(message) == [type |-> "THROW", message |-> message]

\* JavaScript's undefined, where the code can meet it
undefined == [type |-> "undefined"]

nativeBoolToBooleanObject(b) == IF b THEN TRUE_ ELSE FALSE_

(***************************************************************************)
(* Environments live in a heap and are named by their position in it; 0   *)
(* is "no outer environment".                                              *)
(***************************************************************************)
Environment(store, outer) == [store |-> store, outer |-> outer]

EmptyStore == [n \in {} |-> undefined]

\* the properties every object literal inherits from Object.prototype: the
\* stores of the environments and the Builtins table are object literals, and
\* `name in store` and `table[name]` find these properties too
ObjectPrototypeKeys ==
    {<<"c","o","n","s","t","r","u","c","t","o","r">>, <<"t","o","S","t","r","i","n","g">>,
     <<"v","a","l","u","e","O","f">>, <<"t","o","L","o","c","a","l","e","S","t","r","i","n","g">>,
     <<"h","a","s","O","w","n","P","r","o","p","e","r","t","y">>,
     <<"i","s","P","r","o","t","o","t","y","p","e","O","f">>,
     <<"p","r","o","p","e","r","t","y","I","s","E","n","u","m","e","r","a","b","l","e">>}

\* the host function Object.prototype[name]: an object without a `type`
Host(name) == [type |-> "undefined", host |-> name]

\* `${Object.prototype[name]}`
HostText(name) ==
    <<"function ">> \o (IF name = <<"c","o","n","s","t","r","u","c","t","o","r">>
                        THEN <<"Object">> ELSE name) \o <<"() { [native code] }">>

RECURSIVE get(_, _, _)
get(envs, e, name) ==
    IF name \in DOMAIN envs[e].store THEN envs[e].store[name]
    ELSE IF name \in ObjectPrototypeKeys THEN Host(name)
    ELSE IF envs[e].outer # 0 THEN get(envs, envs[e].outer, name)
    ELSE undefined

StorePut(store, name, value) ==
    [n \in DOMAIN store \cup {name} |-> IF n = name THEN value ELSE store[n]]

\* a set that writes to the session's scope, whatever scope it is called on
setInSession(envs, e, name, value) ==
    [envs EXCEPT ![1].store = StorePut(envs[1].store, name, value)]

set(envs, e, name, value) ==
    [envs EXCEPT ![e].store = StorePut(envs[e].store, name, value)]

(***************************************************************************)
(* Rendering to text.  A text is a sequence of pieces; joining texts is    *)
(* concatenation.                                                          *)
(***************************************************************************)
RECURSIVE join(_, _)
join(texts, separator) ==
    IF texts = <<>> THEN <<>>
    ELSE IF Len(texts) = 1 THEN texts[1]
    ELSE texts[1] \o separator \o join(Tail(texts), separator)

\* node.toString() of the AST classes
RECURSIVE toString(_)
toString(node) ==
    LET each(nodes) == [i \in 1..Len(nodes) |-> toString(nodes[i])]
    IN  CASE node.type \in {"Program", "Block"} -> join(each(node.statements), <<>>)
          [] node.type = "Let" ->
                node.token.literal \o <<" ">> \o toString(node.name) \o <<" ", "=", " ">>
                    \o toString(node.value) \o <<";">>
          [] node.type = "Return" -> node.token.literal \o <<" ">> \o toString(node.returnValue)
          [] node.type = "Expression" -> toString(node.expression)
          [] node.type = "Identifier" -> node.value
          [] node.type \in {"Integer", "String", "Boolean"} -> node.token.literal
          [] node.type = "Array" -> <<"[">> \o join(each(node.elements), <<",">>) \o <<"]">>
          [] node.type = "Index" ->
                <<"(">> \o toString(node.left) \o <<"[">> \o toString(node.index) \o <<"]", ")">>
          [] node.type = "Prefix" -> <<"(">> \o node.operator \o toString(node.right) \o <<")">>
          [] node.type = "Infix" ->
                <<"(">> \o toString(node.left) \o <<" ">> \o node.operator \o <<" ">>
                    \o toString(node.right) \o <<")">>
          [] node.type = "If" ->
                <<"i", "f", " ">> \o toString(node.condition) \o <<" ">> \o toString(node.consequence)
                    \o (IF node.alternative.type = "undefined" THEN <<>>
                        ELSE <<" ", "e", "l", "s", "e", " ">> \o toString(node.alternative))
          [] node.type = "Function" ->
                <<"(">> \o join(each(node.parameters), <<",">>) \o <<")", " ">> \o toString(node.body)
          [] node.type = "Call" ->
                toString(node.functionIdentifier) \o <<" ", "(">>
                    \o join(each(node.functionArguments), <<",", " ">>) \o <<")">>
          [] node.type = "Hash" ->
                <<"{">> \o join([i \in 1..Len(node.pairs) |->
                                   toString(node.pairs[i][1]) \o <<":">> \o toString(node.pairs[i][2])],
                                <<",", " ">>) \o <<"}">>

hashKeyToString(key) ==
    CASE key.t = "number" -> <<NumToString(key.v)>>
      [] key.t = "string" -> key.v
      [] key.t = "boolean" -> IF key.v THEN <<"true">> ELSE <<"false">>

\* `${value}` of the object classes
RECURSIVE Inspect(_)
Inspect(value) ==
    CASE value.type = "INTEGER" -> <<NumToString(value.value)>>
      [] value.type = "STRING" -> value.value
      [] value.type = "BOOLEAN" -> IF value.value THEN <<"true">> ELSE <<"false">>
      [] value.type = "NULL" -> <<"NULL">>
      [] value.type = "RETURN" -> Inspect(value.value)
      [] value.type = "ERROR" -> <<"ERROR: ">> \o value.message
      [] value.type = "FUNCTION" ->
            <<"fn (">> \o join([i \in 1..Len(value.params) |-> toString(value.params[i])], <<",">>)
                \o <<") {\n  ">> \o toString(value.body) \o <<"\n}">>
      [] value.type = "BUILTIN" -> <<"[builtin function]">>
      [] value.type = "undefined" -> HostText(value.host)
      [] value.type = "ARRAY" ->
            <<"[">> \o join([i \in 1..Len(value.elements) |-> Inspect(value.elements[i])], <<",">>)
                \o <<"]">>
      [] value.type = "HASH" ->
            <<"{ ">> \o join([i \in 1..Len(value.pairs) |->
                                hashKeyToString(value.pairs[i][1]) \o <<" = ">>
                                    \o Inspect(value.pairs[i][2])], <<", ">>) \o <<" }">>

(***************************************************************************)
(* The evaluator.  An evaluation threads a state st through the recursion: *)
(* the heap of environments, the number of objects allocated so far, and   *)
(* a trace of the evaluate calls entered and left (with the call depth),   *)
(* the environment writes and the function applications.                   *)
(***************************************************************************)
V(v, st) == [v |-> v, st |-> st]

\* what `instanceof Error` stops on; a thrown host exception unwinds the same way
IsError(v) == v.type \in {"ERROR", "THROW"}

Alloc(st) == [st EXCEPT !.objs = @ + 1]

Log(st, event) == [st EXCEPT !.trace = Append(@, event)]

hashKey(value) ==
    CASE value.type = "INTEGER" ->
            [t |-> "number", v |-> IF value.value.k = "-0" THEN Fin(0) ELSE value.value]
      [] value.type = "STRING" -> [t |-> "string", v |-> value.value]
      [] value.type = "BOOLEAN" -> [t |-> "boolean", v |-> value.value]

\* "hashKey" in value
Hashable(value) == value.type \in {"INTEGER", "STRING", "BOOLEAN"}

SameKey(a, b) == a.t = b.t /\ a.v = b.v

\* a map that keeps the first value set for a key
MapSetKeepsFirst(pairs, key, value) ==
    IF \E i \in 1..Len(pairs) : SameKey(pairs[i][1], key) THEN pairs
    ELSE Append(pairs, <<key, value>>)

\* Map.prototype.set
MapSet(pairs, key, value) ==
    IF \E i \in 1..Len(pairs) : SameKey(pairs[i][1], key)
    THEN [i \in 1..Len(pairs) |-> IF SameKey(pairs[i][1], key) THEN <<key, value>> ELSE pairs[i]]
    ELSE Append(pairs, <<key, value>>)

\* Map.prototype.get
MapGet(pairs, key) ==
    IF \E i \in 1..Len(pairs) : SameKey(pairs[i][1], key)
    THEN pairs[CHOOSE i \in 1..Len(pairs) : SameKey(pairs[i][1], key)][2]
    ELSE undefined

\* Array.prototype.at
ArrayAt(elements, index) ==
    LET i == IF index.k \in {"nan", "-0"} THEN 0 ELSE index.n
        j == IF i < 0 THEN Len(elements) + i ELSE i
    IN  IF IsInfinite(index) \/ j < 0 \/ j >= Len(elements) THEN undefined
        ELSE elements[j + 1]

\* a ! for which Integer 0 is falsy too
evaluateBangOperatorZeroFalsy(right) ==
    CASE right = TRUE_ -> FALSE_
      [] right = FALSE_ -> TRUE_
      [] right = NULL -> TRUE_
      [] right = Integer(Fin(0)) -> TRUE_
      [] OTHER -> FALSE_

evaluateBangOperator(right) ==
    CASE right = TRUE_ -> FALSE_
      [] right = FALSE_ -> TRUE_
      [] right = NULL -> TRUE_
      [] OTHER -> FALSE_

evaluateMinusPrefixOperator(right) ==
    IF right.type # "INTEGER" THEN Error(<<"Unknown operator: -", right.type>>)
    ELSE Integer(NumNeg(right.value))

evaluatePrefixExpression(operator, right) ==
    CASE operator = <<"!">> -> evaluateBangOperator(right)
      [] operator = <<"-">> -> evaluateMinusPrefixOperator(right)
      [] OTHER -> Error(<<"Unknown operator: ">> \o operator \o <<right.type>>)

UnknownOperator(left, operator, right) ==
    Error(<<"Unknown operator: ", left.type, " ">> \o operator \o <<" ", right.type>>)

evaluateIntegerInfixExpression(left, operator, right) ==
    LET leftValue == left.value
        rightValue == right.value
    IN  CASE operator = <<"+">> -> Integer(NumAdd(leftValue, rightValue))
          [] operator = <<"-">> -> Integer(NumSub(leftValue, rightValue))
          [] operator = <<"*">> -> Integer(NumMul(leftValue, rightValue))
          [] operator = <<"/">> -> Integer(NumFloorDiv(leftValue, rightValue))
          [] operator = <<"<">> -> nativeBoolToBooleanObject(NumLt(leftValue, rightValue))
          [] operator = <<">">> -> nativeBoolToBooleanObject(NumLt(rightValue, leftValue))
          [] operator = <<"=", "=">> -> nativeBoolToBooleanObject(NumEq(leftValue, rightValue))
          [] operator = <<"!", "=">> -> nativeBoolToBooleanObject(~NumEq(leftValue, rightValue))
          [] OTHER -> UnknownOperator(left, operator, right)

\* a string comparison by value for == next to the concatenation
evaluateStringInfixExpressionWithEquals(left, operator, right) ==
    IF operator = <<"=", "=">> THEN nativeBoolToBooleanObject(left.value = right.value)
    ELSE IF operator # <<"+">> THEN UnknownOperator(left, operator, right)
    ELSE String(left.value \o right.value)

evaluateStringInfixExpression(left, operator, right) ==
    IF operator # <<"+">> THEN UnknownOperator(left, operator, right)
    ELSE String(left.value \o right.value)

\* left == right on objects: the same object.  The booleans and NULL are
\* singletons, every other object is the one its allocation made.
SameObject(left, right) ==
    /\ left.type = right.type
    /\ CASE left.type \in {"BOOLEAN", "NULL", "BUILTIN", "undefined"} -> left = right
         [] left.type \in {"ARRAY", "HASH", "FUNCTION", "RETURN"} -> left.id = right.id
         [] OTHER -> FALSE

evaluateInfixExpression(left, operator, right) ==
    IF left.type # right.type
    THEN Error(<<"Unexpected type on operation: ", left.type, " ">> \o operator \o <<" ", right.type>>)
    ELSE IF left.type = "INTEGER" THEN evaluateIntegerInfixExpression(left, operator, right)
    ELSE IF left.type = "STRING" THEN evaluateStringInfixExpression(left, operator, right)
    ELSE IF operator = <<"=", "=">> THEN nativeBoolToBooleanObject(SameObject(left, right))
    ELSE IF operator = <<"!", "=">> THEN nativeBoolToBooleanObject(~SameObject(left, right))
    ELSE UnknownOperator(left, operator, right)

BuiltinNames ==
    {<<"l","e","n">>, <<"h","e","a","d">>, <<"l","a","s","t">>, <<"t","a","i","l">>,
     <<"i","n","i","t">>, <<"p","u","s","h">>, <<"p","r","e","p","e","n","d">>}

WrongNumberOfArguments(expected, params) ==
    Error(<<"Wrong number of arguments. Expected: ", expected, ". Got: ", ToString(Len(params))>>)

UnexpectedType(builtin, param) ==
    Error(<<"Unexpected type passed to \"", builtin, "\" builtin. Called with: ", param.type>>)

\* an array.elements.push(newEl) that changes the array itself: every binding
\* of the array sees the new element
pushInPlace(params, st) ==
    IF Len(params) # 2 THEN V(WrongNumberOfArguments("2", params), st)
    ELSE IF params[1].type # "ARRAY" THEN V(UnexpectedType("push", params[1]), st)
    ELSE LET grown == Array(Append(params[1].elements, params[2]), params[1].id)
             same(value) == value.type = "ARRAY" /\ value.id = params[1].id
         IN  V(grown,
               [st EXCEPT !.heap =
                    [e \in 1 .. Len(st.heap) |->
                         [st.heap[e] EXCEPT !.store =
                              [n \in DOMAIN st.heap[e].store |->
                                   IF same(st.heap[e].store[n]) THEN grown
                                   ELSE st.heap[e].store[n]]]]])

\* the push builtin: new Array([...array.elements, newEl])
push(params, st) ==
    IF Len(params) # 2 THEN V(WrongNumberOfArguments("2", params), st)
    ELSE IF params[1].type # "ARRAY" THEN V(UnexpectedType("push", params[1]), st)
    ELSE V(Array(Append(params[1].elements, params[2]), st.objs + 1), Alloc(st))

\* Builtins[name].fn(...params); reading `.type` of a missing first parameter
\* is a TypeError
Builtins(name, params, st) ==
    LET param == params[1]
        one(expectedType, builtin, built) ==
            IF Len(params) > 1 THEN V(WrongNumberOfArguments("1", params), st)
            ELSE IF params = <<>>
            THEN V(Thrown(<<"TypeError: Cannot read properties of undefined (reading 'type')">>), st)
            ELSE IF param.type # expectedType THEN V(UnexpectedType(builtin, param), st)
            ELSE built
        newArray(elements) == V(Array(elements, st.objs + 1), Alloc(st))
        orNull(element) == IF element = undefined THEN NULL ELSE element
    IN  CASE name = <<"l","e","n">> ->
               IF Len(params) > 1 THEN V(WrongNumberOfArguments("1", params), st)
               ELSE IF params = <<>>
               THEN V(Thrown(<<"TypeError: Cannot read properties of undefined (reading 'type')">>), st)
               ELSE IF param.type = "STRING" THEN V(Integer(Fin(Len(param.value))), st)
               ELSE IF param.type = "ARRAY" THEN V(Integer(Fin(Len(param.elements))), st)
               ELSE V(UnexpectedType("len", param), st)
          [] name = <<"h","e","a","d">> ->
               one("ARRAY", "head", V(orNull(ArrayAt(param.elements, Fin(0))), st))
          [] name = <<"l","a","s","t">> ->
               one("ARRAY", "last", V(orNull(ArrayAt(param.elements, Fin(-1))), st))
          [] name = <<"t","a","i","l">> ->
               one("ARRAY", "tail",
                   newArray(IF param.elements = <<>> THEN <<>> ELSE Tail(param.elements)))
          [] name = <<"i","n","i","t">> ->
               one("ARRAY", "init",
                   newArray(IF param.elements = <<>> THEN <<>>
                            ELSE SubSeq(param.elements, 1, Len(param.elements) - 1)))
          [] name = <<"p","u","s","h">> -> push(params, st)
          [] name = <<"p","r","e","p","e","n","d">> ->
               IF Len(params) # 2 THEN V(WrongNumberOfArguments("2", params), st)
               ELSE IF param.type # "ARRAY" THEN V(UnexpectedType("push", param), st)
               ELSE newArray(<<params[2]>> \o param.elements)

\* fn.params.reduce((store, { value }, i) => ({ ...store, [value]: params[i] }), {})
initialStore(fnParams, params) ==
    LET names == {fnParams[i].value : i \in 1..Len(fnParams)}
        lastIndex(n) == CHOOSE i \in 1..Len(fnParams) :
                            /\ fnParams[i].value = n
                            /\ \A j \in 1..Len(fnParams) : fnParams[j].value = n => j <= i
    IN  [n \in names |-> IF lastIndex(n) <= Len(params) THEN params[lastIndex(n)] ELSE undefined]

RECURSIVE evaluate(_, _, _), evaluateSwitch(_, _, _), evaluateProgram(_, _, _, _, _),
          evaluateBlockStatements(_, _, _, _, _), evaluateIfExpression(_, _, _),
          evaluateExpressions(_, _, _, _, _), evaluateHashLiteral(_, _, _, _, _),
          evaluateFunction(_, _, _), evaluateInfix(_, _, _), evaluateInfixRightFirst(_, _, _),
          evaluateLet(_, _, _), evaluateLetBindsError(_, _, _),
          evaluateIfExpressionScoped(_, _, _)

\* evaluate(node, environment), with the call entered and left written to the trace
evaluate(node, environment, st) ==
    LET entered == [Log(st, [ev |-> "enter", depth |-> st.depth, env |-> environment,
                             node |-> node]) EXCEPT !.depth = st.depth + 1]
        r == evaluateSwitch(node, environment, entered)
    IN  V(r.v, [Log(r.st, [ev |-> "exit", depth |-> st.depth, env |-> environment,
                           node |-> node, value |-> r.v]) EXCEPT !.depth = st.depth])

evaluateIdentifier(node, environment, st) ==
    LET value == get(st.heap, environment, node.value)
    IN  IF value # undefined THEN value
        ELSE IF node.value \in BuiltinNames THEN Builtin(node.value)
        ELSE IF node.value \in ObjectPrototypeKeys THEN Host(node.value)
        ELSE Error(<<"Identifier not found: ">> \o node.value)

evaluateArrayIndexExpression(left, index) ==
    IF index.type # "INTEGER" THEN Error(<<"Invalid index: ", index.type>>)
    ELSE LET element == ArrayAt(left.elements, index.value)
         IN  IF element = undefined
             THEN Error(<<"Index access out of bounds. Index: ", NumToString(index.value),
                          ". Array len: ", ToString(Len(left.elements))>>)
             ELSE element

evaluateHashIndexExpression(left, index) ==
    IF ~Hashable(index) THEN Error(<<"Unusable hash key: ", index.type>>)
    ELSE LET value == MapGet(left.pairs, hashKey(index))
         IN  IF value = undefined THEN NULL ELSE value

evaluateIndexExpression(left, index) ==
    CASE left.type = "ARRAY" -> evaluateArrayIndexExpression(left, index)
      [] left.type = "HASH" -> evaluateHashIndexExpression(left, index)
      [] OTHER -> Error(<<"Index operator not supported: ", left.type>>)

\* an Infix case that evaluates the right operand before the left one
evaluateInfixRightFirst(node, environment, st) ==
    LET right == evaluate(node.right, environment, st)
        left == evaluate(node.left, environment, right.st)
    IN  IF IsError(right.v) THEN right
        ELSE IF IsError(left.v) THEN left
        ELSE V(evaluateInfixExpression(left.v, node.operator, right.v), left.st)

\* the Infix case of evaluate
evaluateInfix(node, environment, st) ==
    LET left == evaluate(node.left, environment, st)
        right == evaluate(node.right, environment, left.st)
    IN  IF IsError(left.v) THEN left
        ELSE IF IsError(right.v) THEN right
        ELSE V(evaluateInfixExpression(left.v, node.operator, right.v), right.st)

\* a Function case that captures a copy of the environment
evaluateFunctionLiteralByCopy(node, environment, st) ==
    LET copied == [st EXCEPT !.heap = Append(@, st.heap[environment])]
    IN  V(Function(node.parameters, node.body, Len(copied.heap), st.objs + 1), Alloc(copied))

\* the Function case of evaluate: the Function value holds the environment itself
evaluateFunctionLiteral(node, environment, st) ==
    V(Function(node.parameters, node.body, environment, st.objs + 1), Alloc(st))

\* the Let case with the test for an Error after the binding
evaluateLetBindsError(node, environment, st) ==
    LET value == evaluate(node.value, environment, st)
        bound == [Log(value.st, [ev |-> "set", depth |-> st.depth, env |-> environment,
                                 name |-> node.name.value, value |-> value.v])
                    EXCEPT !.heap = set(@, environment, node.name.value, value.v)]
    IN  IF IsError(value.v) THEN V(value.v, bound)
        ELSE V(NULL, bound)

\* the Let case of evaluate
evaluateLet(node, environment, st) ==
    LET value == evaluate(node.value, environment, st)
    IN  IF IsError(value.v) THEN value
        ELSE V(NULL, [Log(value.st, [ev |-> "set", depth |-> st.depth, env |-> environment,
                                     name |-> node.name.value, value |-> value.v])
                        EXCEPT !.heap = set(@, environment, node.name.value, value.v)])

evaluateSwitch(node, environment, st) ==
    CASE node.type = "Program" -> evaluateProgram(node.statements, environment, st, 1, NULL)
      [] node.type = "Expression" -> evaluate(node.expression, environment, st)
      [] node.type = "Block" -> evaluateBlockStatements(node.statements, environment, st, 1, NULL)
      [] node.type = "Return" ->
            LET evaluated == evaluate(node.returnValue, environment, st)
            IN  IF IsError(evaluated.v) THEN evaluated
                ELSE V(Return(evaluated.v, evaluated.st.objs + 1), Alloc(evaluated.st))
      [] node.type = "Let" -> evaluateLet(node, environment, st)
      [] node.type = "Integer" -> V(Integer(Fin(node.value)), st)
      [] node.type = "String" -> V(String(node.value), st)
      [] node.type = "Array" ->
            LET elements == evaluateExpressions(node.elements, environment, st, 1, <<>>)
            IN  IF elements.error THEN V(elements.v, elements.st)
                ELSE V(Array(elements.v, elements.st.objs + 1), Alloc(elements.st))
      [] node.type = "Hash" -> evaluateHashLiteral(node.pairs, environment, st, 1, <<>>)
      [] node.type = "Boolean" -> V(nativeBoolToBooleanObject(node.value), st)
      [] node.type = "Prefix" ->
            LET right == evaluate(node.right, environment, st)
            IN  IF IsError(right.v) THEN right
                ELSE V(evaluatePrefixExpression(node.operator, right.v), right.st)
      [] node.type = "Infix" -> evaluateInfix(node, environment, st)
      [] node.type = "If" -> evaluateIfExpression(node, environment, st)
      [] node.type = "Identifier" -> V(evaluateIdentifier(node, environment, st), st)
      [] node.type = "Function" -> evaluateFunctionLiteral(node, environment, st)
      [] node.type = "Call" ->
            LET value == evaluate(node.functionIdentifier, environment, st)
                params == evaluateExpressions(node.functionArguments, environment, value.st, 1, <<>>)
            IN  IF IsError(value.v) THEN value
                ELSE IF params.error THEN V(params.v, params.st)
                ELSE evaluateFunction(value.v, params.v, params.st)
      [] node.type = "Index" ->
            LET left == evaluate(node.left, environment, st)
                index == evaluate(node.index, environment, left.st)
            IN  IF IsError(left.v) THEN left
                ELSE IF IsError(index.v) THEN index
                ELSE V(evaluateIndexExpression(left.v, index.v), index.st)
      [] OTHER -> V(NULL, st)

\* the loop of evaluateProgram from statement i on; last is $result
evaluateProgram(statements, environment, st, i, last) ==
    IF i > Len(statements) THEN V(last, st)
    ELSE LET r == evaluate(statements[i], environment, st)
         IN  IF r.v.type = "RETURN" THEN V(r.v.value, r.st)
             ELSE IF IsError(r.v) THEN r
             ELSE evaluateProgram(statements, environment, r.st, i + 1, r.v)

\* an evaluateBlockStatements that stops at an Error only
RECURSIVE evaluateBlockStatementsPastReturn(_, _, _, _, _)
evaluateBlockStatementsPastReturn(statements, environment, st, i, last) ==
    IF i > Len(statements) THEN V(last, st)
    ELSE LET r == evaluate(statements[i], environment, st)
         IN  IF IsError(r.v) THEN r
             ELSE evaluateBlockStatementsPastReturn(statements, environment, r.st, i + 1, r.v)

evaluateBlockStatements(statements, environment, st, i, last) ==
    IF i > Len(statements) THEN V(last, st)
    ELSE LET r == evaluate(statements[i], environment, st)
         IN  IF r.v.type = "RETURN" \/ IsError(r.v) THEN r
             ELSE evaluateBlockStatements(statements, environment, r.st, i + 1, r.v)

\* an evaluateIfExpression whose blocks get an environment of their own
evaluateIfExpressionScoped(node, environment, st) ==
    LET condition == evaluate(node.condition, environment, st)
        scoped == [condition.st EXCEPT !.heap = Append(@, Environment(EmptyStore, environment))]
    IN  IF IsError(condition.v) THEN condition
        ELSE IF condition.v # NULL /\ condition.v # FALSE_
        THEN evaluate(node.consequence, Len(scoped.heap), scoped)
        ELSE IF node.alternative.type # "undefined"
        THEN evaluate(node.alternative, Len(scoped.heap), scoped)
        ELSE V(NULL, condition.st)

evaluateIfExpression(node, environment, st) ==
    LET condition == evaluate(node.condition, environment, st)
    IN  IF IsError(condition.v) THEN condition
        ELSE IF condition.v # NULL /\ condition.v # FALSE_
        THEN evaluate(node.consequence, environment, condition.st)
        ELSE IF node.alternative.type # "undefined"
        THEN evaluate(node.alternative, environment, condition.st)
        ELSE V(NULL, condition.st)

\* an evaluateExpressions that keeps going after an Error
RECURSIVE evaluateExpressionsUnchecked(_, _, _, _, _)
evaluateExpressionsUnchecked(expressions, environment, st, i, res) ==
    IF i > Len(expressions) THEN [error |-> FALSE, v |-> res, st |-> st]
    ELSE LET value == evaluate(expressions[i], environment, st)
         IN  evaluateExpressionsUnchecked(expressions, environment, value.st, i + 1,
                                          Append(res, value.v))

\* the loop of evaluateExpressions from expression i on; res is the list so far
evaluateExpressions(expressions, environment, st, i, res) ==
    IF i > Len(expressions) THEN [error |-> FALSE, v |-> res, st |-> st]
    ELSE LET value == evaluate(expressions[i], environment, st)
         IN  IF IsError(value.v) THEN [error |-> TRUE, v |-> value.v, st |-> value.st]
             ELSE evaluateExpressions(expressions, environment, value.st, i + 1,
                                      Append(res, value.v))

\* the loop of evaluateHashLiteral from pair i on
evaluateHashLiteral(hashPairs, environment, st, i, pairs) ==
    IF i > Len(hashPairs) THEN V(Hash(pairs, st.objs + 1), Alloc(st))
    ELSE LET key == evaluate(hashPairs[i][1], environment, st)
             value == evaluate(hashPairs[i][2], environment, key.st)
         IN  IF IsError(key.v) THEN key
             ELSE IF ~Hashable(key.v) THEN V(Error(<<"Unusable hash key: ", key.v.type>>), key.st)
             ELSE IF IsError(value.v) THEN value
             ELSE evaluateHashLiteral(hashPairs, environment, value.st, i + 1,
                                      MapSet(pairs, hashKey(key.v), value.v))

\* an evaluateFunction whose new scope hangs off the session's scope
evaluateFunctionInSession(fn, params, st) ==
    IF fn.type = "FUNCTION"
    THEN LET env == Len(st.heap) + 1
             scope == Environment(initialStore(fn.params, params), 1)
             called == [Log(st, [ev |-> "call", depth |-> st.depth, env |-> env, fn |-> fn,
                                 params |-> params, scope |-> scope])
                          EXCEPT !.heap = Append(@, scope)]
             evaluated == evaluate(fn.body, env, called)
         IN  IF evaluated.v.type = "RETURN" THEN V(evaluated.v.value, evaluated.st)
             ELSE evaluated
    ELSE IF fn.type = "BUILTIN" THEN Builtins(fn.name, params, st)
    ELSE V(Error(<<"Not a function: ">> \o Inspect(fn)), st)

evaluateFunction(fn, params, st) ==
    IF fn.type = "FUNCTION"
    THEN LET env == Len(st.heap) + 1
             scope == Environment(initialStore(fn.params, params), fn.env)
             called == [Log(st, [ev |-> "call", depth |-> st.depth, env |-> env, fn |-> fn,
                                 params |-> params, scope |-> scope])
                          EXCEPT !.heap = Append(@, scope)]
             evaluated == evaluate(fn.body, env, called)
         IN  IF evaluated.v.type = "RETURN" THEN V(evaluated.v.value, evaluated.st)
             ELSE evaluated
    ELSE IF fn.type = "BUILTIN" THEN Builtins(fn.name, params, st)
    ELSE V(Error(<<"Not a function: ">> \o Inspect(fn)), st)


(***************************************************************************)
(* The REPL (src/src/repl/repl.ts): one Environment for the session, one   *)
(* parse and one evaluation for every line read.                           *)
(***************************************************************************)
MaxLines == 3

\* let a = 5;
LetA5 ==
    <<"l", "e", "t", " ", "a", " ", "=", " ", "5", ";">>

\* a
NameA ==
    <<"a">>

\* let a 5
LetAWithoutAssign ==
    <<"l", "e", "t", " ", "a", " ", "5">>

\* let newAdder = fn(x) { fn(y) { x + y } }; let a = newAdder(2); let b = newAdder(3); a(10) * b(10)
NewAdderProgram ==
    <<"l", "e", "t", " ", "n", "e", "w", "A", "d", "d", "e", "r", " ", "=", " ", "f", "n",
      "(", "x", ")", " ", "{", " ", "f", "n", "(", "y", ")", " ", "{", " ", "x", " ", "+",
      " ", "y", " ", "}", " ", "}", ";", " ", "l", "e", "t", " ", "a", " ", "=", " ", "n",
      "e", "w", "A", "d", "d", "e", "r", "(", "2", ")", ";", " ", "l", "e", "t", " ", "b",
      " ", "=", " ", "n", "e", "w", "A", "d", "d", "e", "r", "(", "3", ")", ";", " ", "a",
      "(", "1", "0", ")", " ", "*", " ", "b", "(", "1", "0", ")">>

\* let x = 1; let f = fn() { x }; let g = fn(x) { f() }; g(2)
DynamicScopeProgram ==
    <<"l", "e", "t", " ", "x", " ", "=", " ", "1", ";", " ", "l", "e", "t", " ", "f", " ",
      "=", " ", "f", "n", "(", ")", " ", "{", " ", "x", " ", "}", ";", " ", "l", "e", "t",
      " ", "g", " ", "=", " ", "f", "n", "(", "x", ")", " ", "{", " ", "f", "(", ")", " ",
      "}", ";", " ", "g", "(", "2", ")">>

\* let x = 1; let f = fn() { let x = 2; x }; f() + x
ShadowProgram ==
    <<"l", "e", "t", " ", "x", " ", "=", " ", "1", ";", " ", "l", "e", "t", " ", "f", " ",
      "=", " ", "f", "n", "(", ")", " ", "{", " ", "l", "e", "t", " ", "x", " ", "=", " ",
      "2", ";", " ", "x", " ", "}", ";", " ", "f", "(", ")", " ", "+", " ", "x">>

\* let x = if (true) { return 1 };
LetOfReturningIf ==
    <<"l", "e", "t", " ", "x", " ", "=", " ", "i", "f", " ", "(", "t", "r", "u", "e", ")",
      " ", "{", " ", "r", "e", "t", "u", "r", "n", " ", "1", " ", "}", ";">>

\* the lines typed at any prompt
Lines ==
    \* let a = a + 1;
    { <<"l", "e", "t", " ", "a", " ", "=", " ", "a", " ", "+", " ", "1", ";">>,
    \* let f = fn(x) { let a = x; a };
      <<"l", "e", "t", " ", "f", " ", "=", " ", "f", "n", "(", "x", ")", " ", "{", " ", "l",
       "e", "t", " ", "a", " ", "=", " ", "x", ";", " ", "a", " ", "}", ";">>,
    \* f(7) + a
      <<"f", "(", "7", ")", " ", "+", " ", "a">> }
    \cup {LetA5, NameA, LetAWithoutAssign}

\* the lines typed at the first prompt only
Programs ==
    \* -z
    { <<"-", "z">>,
    \* !z
      <<"!", "z">>,
    \* z + 1
      <<"z", " ", "+", " ", "1">>,
    \* 1 + z
      <<"1", " ", "+", " ", "z">>,
    \* let x = z; x
      <<"l", "e", "t", " ", "x", " ", "=", " ", "z", ";", " ", "x">>,
    \* return z; 5
      <<"r", "e", "t", "u", "r", "n", " ", "z", ";", " ", "5">>,
    \* if (z) { 1 } else { 2 }
      <<"i", "f", " ", "(", "z", ")", " ", "{", " ", "1", " ", "}", " ", "e", "l", "s", "e",
       " ", "{", " ", "2", " ", "}">>,
    \* if (true) { z; 1 }
      <<"i", "f", " ", "(", "t", "r", "u", "e", ")", " ", "{", " ", "z", ";", " ", "1", " ",
       "}">>,
    \* z(1)
      <<"z", "(", "1", ")">>,
    \* len(z, 1)
      <<"l", "e", "n", "(", "z", ",", " ", "1", ")">>,
    \* len(1, z, 2)
      <<"l", "e", "n", "(", "1", ",", " ", "z", ",", " ", "2", ")">>,
    \* [1, z, 3]
      <<"[", "1", ",", " ", "z", ",", " ", "3", "]">>,
    \* [1][z]
      <<"[", "1", "]", "[", "z", "]">>,
    \* z[0]
      <<"z", "[", "0", "]">>,
    \* {z: 1}
      <<"{", "z", ":", " ", "1", "}">>,
    \* {1: z, 2: 3}
      <<"{", "1", ":", " ", "z", ",", " ", "2", ":", " ", "3", "}">>,
    \* {[1]: z}
      <<"{", "[", "1", "]", ":", " ", "z", "}">>,
    \* fn(x) { x + z; 1 }(2)
      <<"f", "n", "(", "x", ")", " ", "{", " ", "x", " ", "+", " ", "z", ";", " ", "1", " ",
       "}", "(", "2", ")">>,
    \* -true + 1
      <<"-", "t", "r", "u", "e", " ", "+", " ", "1">>,
    \* 1(2)
      <<"1", "(", "2", ")">>,
    \* [if (true) { return 1 }]
      <<"[", "i", "f", " ", "(", "t", "r", "u", "e", ")", " ", "{", " ", "r", "e", "t", "u",
       "r", "n", " ", "1", " ", "}", "]">>,
    \* return if (true) { return 1 }
      <<"r", "e", "t", "u", "r", "n", " ", "i", "f", " ", "(", "t", "r", "u", "e", ")", " ",
       "{", " ", "r", "e", "t", "u", "r", "n", " ", "1", " ", "}">>,
    \* fn() { return if (true) { return 1 } }()
      <<"f", "n", "(", ")", " ", "{", " ", "r", "e", "t", "u", "r", "n", " ", "i", "f", " ",
       "(", "t", "r", "u", "e", ")", " ", "{", " ", "r", "e", "t", "u", "r", "n", " ", "1",
       " ", "}", " ", "}", "(", ")">>,
    \* 1; return 2; let k = 3; 4
      <<"1", ";", " ", "r", "e", "t", "u", "r", "n", " ", "2", ";", " ", "l", "e", "t", " ",
       "k", " ", "=", " ", "3", ";", " ", "4">>,
    \* if (true) { if (true) { return 10; } return 1; }
      <<"i", "f", " ", "(", "t", "r", "u", "e", ")", " ", "{", " ", "i", "f", " ", "(", "t",
       "r", "u", "e", ")", " ", "{", " ", "r", "e", "t", "u", "r", "n", " ", "1", "0", ";",
       " ", "}", " ", "r", "e", "t", "u", "r", "n", " ", "1", ";", " ", "}">>,
    \* if (true) { return 1; let k = 2; }; let m = 3;
      <<"i", "f", " ", "(", "t", "r", "u", "e", ")", " ", "{", " ", "r", "e", "t", "u", "r",
       "n", " ", "1", ";", " ", "l", "e", "t", " ", "k", " ", "=", " ", "2", ";", " ", "}",
       ";", " ", "l", "e", "t", " ", "m", " ", "=", " ", "3", ";">>,
    \* 1; 2; 3
      <<"1", ";", " ", "2", ";", " ", "3">>,
    \* if (false) { 1 }
      <<"i", "f", " ", "(", "f", "a", "l", "s", "e", ")", " ", "{", " ", "1", " ", "}">>,
    \* fn() { }()
      <<"f", "n", "(", ")", " ", "{", " ", "}", "(", ")">>,
    \* fn() { return 5; 6 }() + 1
      <<"f", "n", "(", ")", " ", "{", " ", "r", "e", "t", "u", "r", "n", " ", "5", ";", " ",
       "6", " ", "}", "(", ")", " ", "+", " ", "1">>,
    \* fn(x, y) { x - y }(5, 3)
      <<"f", "n", "(", "x", ",", " ", "y", ")", " ", "{", " ", "x", " ", "-", " ", "y", " ",
       "}", "(", "5", ",", " ", "3", ")">>,
    \* fn(x, y) { x }(5)
      <<"f", "n", "(", "x", ",", " ", "y", ")", " ", "{", " ", "x", " ", "}", "(", "5", ")">>,
    \* fn(x, x) { x }(1, 2)
      <<"f", "n", "(", "x", ",", " ", "x", ")", " ", "{", " ", "x", " ", "}", "(", "1", ",",
       " ", "2", ")">>,
    \* let x = 1; let f = fn() { let g = fn() { let x = 3; x }; g() + x }; f() + x
      <<"l", "e", "t", " ", "x", " ", "=", " ", "1", ";", " ", "l", "e", "t", " ", "f", " ",
       "=", " ", "f", "n", "(", ")", " ", "{", " ", "l", "e", "t", " ", "g", " ", "=", " ",
       "f", "n", "(", ")", " ", "{", " ", "l", "e", "t", " ", "x", " ", "=", " ", "3", ";",
       " ", "x", " ", "}", ";", " ", "g", "(", ")", " ", "+", " ", "x", " ", "}", ";", " ",
       "f", "(", ")", " ", "+", " ", "x">>,
    \* "a" + "b"
      <<"\"", "a", "\"", " ", "+", " ", "\"", "b", "\"">>,
    \* push([1], 2)
      <<"p", "u", "s", "h", "(", "[", "1", "]", ",", " ", "2", ")">>,
    \* {"k": 1}["k"]
      <<"{", "\"", "k", "\"", ":", " ", "1", "}", "[", "\"", "k", "\"", "]">>,
    \* [1, 2][5]
      <<"[", "1", ",", " ", "2", "]", "[", "5", "]">>,
    \* "a
      <<"\"", "a">> }
    \cup {NewAdderProgram, DynamicScopeProgram, ShadowProgram, LetOfReturningIf}

MONKEY_FACE == <<"MONKEY_FACE">>

\* start(username), up to the first prompt
InitRepl ==
    /\ LexerOff
    /\ ParserOff
    /\ heap = <<Environment(EmptyStore, 0)>>
    /\ objs = 0
    /\ trace = <<>>
    /\ result = undefined
    /\ console = << <<"Hello ", "username", "! This is the Monkey programming language!">>,
                    <<"\n">>, <<"Feel free to type in commands\n">>, <<"\n">> >>
    /\ replStatus = "running"
    /\ lineNo = 0

\* a loop that evaluates every line in an Environment of its own
ReplEvaluateFresh(program, envs, allocated) ==
    evaluate(program, Len(envs) + 1,
             [heap |-> Append(envs, Environment(EmptyStore, 0)), objs |-> allocated,
              trace |-> <<>>, depth |-> 0])

\* evaluate(program, environment) of the loop: environment is the session's
ReplEvaluate(program, envs, allocated) ==
    evaluate(program, 1, [heap |-> envs, objs |-> allocated, trace |-> <<>>, depth |-> 0])

\* the loop after evaluate returned, or threw
ReplPrint(evaluated) ==
    /\ heap' = evaluated.st.heap
    /\ objs' = evaluated.st.objs
    /\ trace' = evaluated.st.trace
    /\ result' = evaluated.v
    /\ IF evaluated.v.type = "THROW"
       THEN replStatus' = "crashed" /\ UNCHANGED console
       ELSE /\ console' = console \o <<Inspect(evaluated.v), <<"\n">>>>
            /\ UNCHANGED replStatus

\* the loop after parseProgram returned [program, errors], or threw
ReplParsed(p) ==
    /\ parsed' = p
    /\ CASE p.tag = "throw" ->
              /\ replStatus' = "crashed"
              /\ trace' = <<>>
              /\ result' = undefined
              /\ UNCHANGED <<heap, objs, console>>
         [] p.tag = "errors" ->
              /\ console' = console \o
                     <<MONKEY_FACE, <<"Woops! We ran into some monkey business here!">>,
                       <<"\n">>, <<"Parse error: ">> \o join(p.errors, <<"\n">>)>>
              /\ trace' = <<>>
              /\ result' = undefined
              /\ UNCHANGED <<heap, objs, replStatus>>
         [] p.tag = "ok" -> ReplPrint(ReplEvaluate(p.program, heap, objs))

\* the loop after getLexer(line): parseProgram drains the generator
ReplLexed(lexer) ==
    IF lexer.hang
    THEN /\ replStatus' = "hang"
         /\ parsed' = [tag |-> "none"]
         /\ trace' = <<>>
         /\ result' = undefined
         /\ UNCHANGED <<heap, objs, console>>
    ELSE ReplParsed(parseProgram(lexer))

\* one turn of the loop on a non-empty line
ReplLine(text) ==
    /\ replStatus = "running"
    /\ lineNo < MaxLines
    /\ text # <<>>
    /\ lineNo' = lineNo + 1
    /\ line' = text
    /\ UNCHANGED <<lexVars, reparsed>>
    /\ ReplLexed(createLexer(text))

\* the empty line
ReplBye ==
    /\ replStatus = "running"
    /\ lineNo' = lineNo + 1
    /\ console' = console \o << <<"Bye!!!">>, <<"\n">> >>
    /\ replStatus' = "closed"
    /\ UNCHANGED <<lexVars, parseVars, heap, objs, trace, result>>

NextRepl ==
    \/ \E text \in (IF lineNo = 0 THEN Lines \cup Programs ELSE Lines) : ReplLine(text)
    \/ ReplBye

SpecRepl == InitRepl /\ [][NextRepl]_vars


(***************************************************************************)
(* The claims about the evaluator and the REPL, over the trace of the      *)
(* evaluate calls of the last line.                                        *)
(***************************************************************************)
\* where the call entered at position j of the trace is left
ExitOf(j) ==
    CHOOSE k \in (j + 1)..Len(trace) :
        /\ trace[k].ev = "exit"
        /\ trace[k].depth = trace[j].depth
        /\ \A m \in (j + 1)..(k - 1) : ~(trace[m].ev = "exit" /\ trace[m].depth = trace[j].depth)

\* where the calls made by the call entered at j are entered, in the order made
ChildrenOf(j) ==
    LET k == ExitOf(j)
    IN  SelectSeq([m \in 1..Len(trace) |-> m],
                  LAMBDA m : /\ m > j
                             /\ m < k
                             /\ trace[m].ev = "enter"
                             /\ trace[m].depth = trace[j].depth + 1)

\* C1: an evaluate call that returns an Error to the evaluate call that made
\* it ends that call at once: the caller makes no further evaluate call (no
\* later operand, argument, element, key or value is evaluated) and returns
\* the very same Error.
C1_ErrorShortCircuits ==
    \A i \in 1..Len(trace) :
        (trace[i].ev = "exit" /\ trace[i].value.type = "ERROR" /\ trace[i].depth > 0)
        => /\ i < Len(trace)
           /\ trace[i + 1].ev = "exit"
           /\ trace[i + 1].depth = trace[i].depth - 1
           /\ trace[i + 1].value = trace[i].value

\* a call whose first argument evaluated to an Error and which had more arguments
C1_Witness ==
    \E i \in 1..(Len(trace) - 1) :
        /\ trace[i].ev = "exit"
        /\ trace[i].value.type = "ERROR"
        /\ trace[i + 1].ev = "exit"
        /\ trace[i + 1].node.type = "Call"
        /\ Len(trace[i + 1].node.functionArguments) >= 2
        /\ trace[i].node = trace[i + 1].node.functionArguments[1]
        /\ result = trace[i].value

\* C2: no Return object is ever seen outside the evaluation of a function
\* body or program: the program's value is none and holds none as an element
\* or hash value, no call returns one, and no environment binds one.
C2_ReturnNeverObservable ==
    /\ result.type # "RETURN"
    /\ result.type = "ARRAY" =>
           \A i \in 1..Len(result.elements) : result.elements[i].type # "RETURN"
    /\ result.type = "HASH" =>
           \A i \in 1..Len(result.pairs) : result.pairs[i][2].type # "RETURN"
    /\ \A i \in 1..Len(trace) :
           (trace[i].ev = "exit" /\ trace[i].node.type = "Call") => trace[i].value.type # "RETURN"
    /\ \A e \in 1..Len(heap) :
           \A n \in DOMAIN heap[e].store : heap[e].store[n].type # "RETURN"

\* a value that ends a program or block: a Return, an Error, or a host exception
Stops(v) == v.type \in {"RETURN", "ERROR", "THROW"}

\* C3: a program or block evaluates its statements in source order and stops
\* at the first one whose value is a Return or an Error: no later statement
\* is evaluated, the block hands that value on as it is, the program hands
\* on the value inside a Return; when no statement stops it, all statements
\* are evaluated and the result is the value of the last one (NULL for none).
C3_StopsAtFirstReturnOrError ==
    \A j \in 1..Len(trace) :
        (trace[j].ev = "enter" /\ trace[j].node.type \in {"Program", "Block"}) =>
            LET statements == trace[j].node.statements
                children == ChildrenOf(j)
                n == Len(children)
                valueOf(c) == trace[ExitOf(children[c])].value
                out == trace[ExitOf(j)].value
            IN  /\ n <= Len(statements)
                /\ \A c \in 1..n : trace[children[c]].node = statements[c]
                /\ \A c \in 1..n : trace[children[c]].env = trace[j].env
                /\ \A c \in 1..(n - 1) : ~Stops(valueOf(c))
                /\ IF n > 0 /\ Stops(valueOf(n))
                   THEN out = IF trace[j].node.type = "Program" /\ valueOf(n).type = "RETURN"
                              THEN valueOf(n).value
                              ELSE valueOf(n)
                   ELSE /\ n = Len(statements)
                        /\ out = IF n = 0 THEN NULL ELSE valueOf(n)

\* a block left by a return statement that a let statement follows
C3_Witness ==
    \E j \in 1..Len(trace) :
        /\ trace[j].ev = "enter"
        /\ trace[j].node.type = "Block"
        /\ LET n == Len(ChildrenOf(j))
           IN  /\ n > 0
               /\ n < Len(trace[j].node.statements)
               /\ trace[ExitOf(ChildrenOf(j)[n])].value.type = "RETURN"
               /\ trace[j].node.statements[n + 1].type = "Let"
               /\ trace[ExitOf(j)].value.type = "RETURN"

\* C4: a function literal captures the environment it is evaluated in, and
\* applying the Function builds a new scope whose outer is that captured
\* environment, binds the parameters to the arguments by position and
\* evaluates the body in it; so a free variable resolves at the definition
\* site and the adders made by newAdder(2) and newAdder(3) stay apart.
C4_LexicalScoping ==
    /\ \A i \in 1..Len(trace) :
           (trace[i].ev = "exit" /\ trace[i].node.type = "Function") =>
               /\ trace[i].value.type = "FUNCTION"
               /\ trace[i].value.env = trace[i].env
               /\ trace[i].value.params = trace[i].node.parameters
               /\ trace[i].value.body = trace[i].node.body
    /\ \A i \in 1..Len(trace) :
           trace[i].ev = "call" =>
               LET c == trace[i]
                   names == [p \in 1..Len(c.fn.params) |-> c.fn.params[p].value]
               IN  /\ c.scope.outer = c.fn.env
                   /\ heap[c.env].outer = c.fn.env
                   /\ c.env # 1
                   /\ \A m \in 1..(i - 1) : trace[m].env # c.env
                   /\ DOMAIN c.scope.store = {names[p] : p \in 1..Len(names)}
                   /\ \A p \in 1..Len(names) :
                          (\A q \in (p + 1)..Len(names) : names[q] # names[p]) =>
                              c.scope.store[names[p]] =
                                  IF p <= Len(c.params) THEN c.params[p] ELSE undefined
                   /\ trace[i + 1].ev = "enter"
                   /\ trace[i + 1].env = c.env
                   /\ trace[i + 1].node = c.fn.body
    /\ (line = DynamicScopeProgram /\ lineNo = 1) => result = Integer(Fin(1))
    /\ (line = NewAdderProgram /\ lineNo = 1) => result = Integer(Fin(156))

\* newAdder(2) and newAdder(3) applied: (2 + 10) * (3 + 10), from two scopes
\* that bind x apart
C4_Witness ==
    /\ line = NewAdderProgram
    /\ result = Integer(Fin(156))
    /\ \E i, j \in 1..Len(trace) :
           /\ trace[i].ev = "call"
           /\ trace[j].ev = "call"
           /\ trace[i].env # trace[j].env
           /\ trace[i].fn.body = trace[j].fn.body
           /\ trace[i].scope.store[<<"x">>] = Integer(Fin(2))
           /\ trace[j].scope.store[<<"x">>] = Integer(Fin(3))
           /\ heap[trace[i].env].outer = 1

\* a step of the REPL that evaluated a line
LineEvaluated == lineNo' = lineNo + 1 /\ replStatus' # "closed" /\ parsed'.tag = "ok"

\* where a trace sets name in scope e
SetsOf(events, e, name) ==
    {i \in 1..Len(events) : events[i].ev = "set" /\ events[i].env = e /\ events[i].name = name}

Last(positions) == CHOOSE i \in positions : \A j \in positions : j <= i

\* C5: set writes to the scope it is called on and to no other.  Over the
\* evaluation of a line, every scope (the session's, every captured one,
\* every one built by a call) ends up with what it started with, overwritten
\* by exactly the let statements evaluated in that very scope: a let inside
\* a call, at any depth, leaves every outer scope as it was.
C5_SetStaysInItsScope ==
    [][LineEvaluated =>
        /\ Len(heap') >= Len(heap)
        /\ \A i \in 1..Len(trace') :
               trace'[i].ev = "set" =>
                   /\ trace'[i + 1].ev = "exit"
                   /\ trace'[i + 1].node.type = "Let"
                   /\ trace'[i + 1].node.name.value = trace'[i].name
                   /\ trace'[i + 1].env = trace'[i].env
        /\ \A e \in 1..Len(heap') :
               LET before == IF e <= Len(heap) THEN heap[e]
                             ELSE trace'[CHOOSE i \in 1..Len(trace') :
                                             trace'[i].ev = "call" /\ trace'[i].env = e].scope
                   names == {trace'[i].name :
                                i \in {k \in 1..Len(trace') :
                                          trace'[k].ev = "set" /\ trace'[k].env = e}}
               IN  /\ heap'[e].outer = before.outer
                   /\ DOMAIN heap'[e].store = DOMAIN before.store \cup names
                   /\ \A n \in DOMAIN heap'[e].store :
                          heap'[e].store[n] =
                              IF n \in names THEN trace'[Last(SetsOf(trace', e, n))].value
                              ELSE before.store[n]
    ]_vars

\* `let x = 2` inside f() shadowed the session's x = 1, which f() + x then read
C5_Witness ==
    /\ line = ShadowProgram
    /\ result = Integer(Fin(3))
    /\ heap[1].store[<<"x">>] = Integer(Fin(1))
    /\ \E i \in 1..Len(trace) :
           /\ trace[i].ev = "set"
           /\ trace[i].env # 1
           /\ trace[i].name = <<"x">>
           /\ trace[i].value = Integer(Fin(2))
           /\ heap[trace[i].env].outer = 1

\* C6: the REPL evaluates every line in the one Environment of the session:
\* what a top-level let bound on an earlier line is still bound, to the same
\* value, until a let of this line rebinds it, and a name resolves to it; a
\* line with a parse error is not evaluated and leaves the session as it was.
C6_OneEnvironmentPerSession ==
    [][(lineNo' = lineNo + 1 /\ replStatus' # "closed") =>
        /\ parsed'.tag = "errors" =>
               /\ heap' = heap
               /\ objs' = objs
               /\ trace' = <<>>
               /\ replStatus' = "running"
        /\ parsed'.tag = "ok" =>
               /\ trace'[1].ev = "enter"
               /\ trace'[1].env = 1
               /\ trace'[1].node = parsed'.program
               /\ heap'[1].outer = 0
               /\ \A n \in DOMAIN heap[1].store :
                      /\ n \in DOMAIN heap'[1].store
                      /\ SetsOf(trace', 1, n) = {} => heap'[1].store[n] = heap[1].store[n]
               /\ \A i \in 1..Len(trace') :
                      ( /\ trace'[i].ev = "exit"
                        /\ trace'[i].env = 1
                        /\ trace'[i].node.type = "Identifier"
                        /\ trace'[i].node.value \in DOMAIN heap[1].store
                        /\ \A m \in SetsOf(trace', 1, trace'[i].node.value) : m > i )
                      => trace'[i].value = heap[1].store[trace'[i].node.value]
    ]_vars

\* `let a = 5;`, then a line with a parse error, then `a` printed 5
C6_Witness ==
    /\ lineNo = 3
    /\ line = NameA
    /\ result = Integer(Fin(5))
    /\ \E i \in 1..Len(console) : console[i] = MONKEY_FACE
    /\ console[Len(console) - 1] = <<"5">>


(***************************************************************************)
(* The parser on its own: parseProgram over the token stream of a text.    *)
(***************************************************************************)
MaxWords == 3

\* the pieces the texts are put together from, each one token
Words ==
    { <<"l", "e", "t">>, <<"y">>, <<"1", "0">>, <<"=">>, <<";">>, <<"(">>, <<")">>, <<"+">>,
      <<"{">> }

\* let y 10; let 10;
LetY10Let10 ==
    <<"l", "e", "t", " ", "y", " ", "1", "0", ";", " ", "l", "e", "t", " ", "1", "0", ";">>

\* texts of the parser tests and texts malformed in other places
Texts ==
    \* fn(x,y { x + y }
    { <<"f", "n", "(", "x", ",", "y", " ", "{", " ", "x", " ", "+", " ", "y", " ", "}">>,
    \* let x = (1 + ; let y = 2;
      <<"l", "e", "t", " ", "x", " ", "=", " ", "(", "1", " ", "+", " ", ";", " ", "l", "e",
       "t", " ", "y", " ", "=", " ", "2", ";">>,
    \* let x = 5; let = 10; let 838383;
      <<"l", "e", "t", " ", "x", " ", "=", " ", "5", ";", " ", "l", "e", "t", " ", "=", " ",
       "1", "0", ";", " ", "l", "e", "t", " ", "8", "3", "8", "3", "8", "3", ";">>,
    \* if (x < y) { x } else { y }; let
      <<"i", "f", " ", "(", "x", " ", "<", " ", "y", ")", " ", "{", " ", "x", " ", "}", " ",
       "e", "l", "s", "e", " ", "{", " ", "y", " ", "}", ";", " ", "l", "e", "t">>,
    \* fn(x, y) { return x + y; }(1, 2)
      <<"f", "n", "(", "x", ",", " ", "y", ")", " ", "{", " ", "r", "e", "t", "u", "r", "n",
       " ", "x", " ", "+", " ", "y", ";", " ", "}", "(", "1", ",", " ", "2", ")">>,
    \* [1, 2 * 2][0]
      <<"[", "1", ",", " ", "2", " ", "*", " ", "2", "]", "[", "0", "]">>,
    \* {"a": 1, 2: true}
      <<"{", "\"", "a", "\"", ":", " ", "1", ",", " ", "2", ":", " ", "t", "r", "u", "e",
       "}">>,
    \* add(1, 2 * 3, 4 + 5);
      <<"a", "d", "d", "(", "1", ",", " ", "2", " ", "*", " ", "3", ",", " ", "4", " ", "+",
       " ", "5", ")", ";">>,
    \* let x = 
      <<"l", "e", "t", " ", "x", " ", "=", " ">>,
    \* !-a; return;
      <<"!", "-", "a", ";", " ", "r", "e", "t", "u", "r", "n", ";">>,
    \* 1 + 2 * 3 == 7 != false
      <<"1", " ", "+", " ", "2", " ", "*", " ", "3", " ", "=", "=", " ", "7", " ", "!", "=",
       " ", "f", "a", "l", "s", "e">> }
    \cup {LetY10Let10}

\* the texts of up to MaxWords words, a blank between two words
WordTexts == {join(ws, <<" ">>) : ws \in SeqsUpTo(Words, MaxWords)}

\* if (x) { y
IfUnclosed ==
    <<"i", "f", " ", "(", "x", ")", " ", "{", " ", "y">>

\* fn() { 1
FnUnclosed ==
    <<"f", "n", "(", ")", " ", "{", " ", "1">>

\* texts with blocks that are closed, that are never closed, and statements
\* with no semicolon behind them
ParserTexts ==
    \* if (x) { y }
    { <<"i", "f", " ", "(", "x", ")", " ", "{", " ", "y", " ", "}">>,
    \* fn() { 1 }
      <<"f", "n", "(", ")", " ", "{", " ", "1", " ", "}">>,
    \* let a = 1
      <<"l", "e", "t", " ", "a", " ", "=", " ", "1">>,
    \* x + y
      <<"x", " ", "+", " ", "y">>,
    \* if (x) { y } else { z
      <<"i", "f", " ", "(", "x", ")", " ", "{", " ", "y", " ", "}", " ", "e", "l", "s",
        "e", " ", "{", " ", "z">>,
    \* if (x) { if (y) { z }
      <<"i", "f", " ", "(", "x", ")", " ", "{", " ", "i", "f", " ", "(", "y", ")", " ",
        "{", " ", "z", " ", "}">>,
    \* let f = fn(a, b) { a + b
      <<"l", "e", "t", " ", "f", " ", "=", " ", "f", "n", "(", "a", ",", " ", "b", ")",
        " ", "{", " ", "a", " ", "+", " ", "b">>,
    \* fn(a, b) { return a; }(1, 2 * 3)
      <<"f", "n", "(", "a", ",", " ", "b", ")", " ", "{", " ", "r", "e", "t", "u", "r",
        "n", " ", "a", ";", " ", "}", "(", "1", ",", " ", "2", " ", "*", " ", "3", ")">>,
    \* if (x) { let y = ; 1
      <<"i", "f", " ", "(", "x", ")", " ", "{", " ", "l", "e", "t", " ", "y", " ", "=",
        " ", ";", " ", "1">>,
    \* add(1, 2
      <<"a", "d", "d", "(", "1", ",", " ", "2">>,
    \* !-a; return 5; let
      <<"!", "-", "a", ";", " ", "r", "e", "t", "u", "r", "n", " ", "5", ";", " ", "l",
        "e", "t">>,
    \* if (x < y) { x } else { y }; let
      <<"i", "f", " ", "(", "x", " ", "<", " ", "y", ")", " ", "{", " ", "x", " ", "}",
        " ", "e", "l", "s", "e", " ", "{", " ", "y", " ", "}", ";", " ", "l", "e", "t">> }
    \cup {IfUnclosed, FnUnclosed}

(***************************************************************************)
(* Expressions for the grouping of operators.                              *)
(***************************************************************************)
MaxOperators == 2

BinaryOperators ==
    { <<"+">>, <<"-">>, <<"*">>, <<"/">>, <<"<">>, <<">">>, <<"=", "=">>, <<"!", "=">> }

OperandNames == <<"a", "b", "c", "d", "e">>

OperandForms == {"plain", "minus", "bang", "call", "index", "minusCall", "bangIndex"}

\* the operand x as it is, behind a unary operator, called or indexed
Decorate(form, x) ==
    CASE form = "plain" -> <<x>>
      [] form = "minus" -> <<"-", x>>
      [] form = "bang" -> <<"!", x>>
      [] form = "call" -> <<x, "(", "y", ")">>
      [] form = "index" -> <<x, "[", "1", "]">>
      [] form = "minusCall" -> <<"-", x, "(", "y", ")">>
      [] form = "bangIndex" -> <<"!", x, "[", "1", "]">>

\* a b c ... with the operators ops between them, operand k in the given form
ExpressionText(ops, k, form) ==
    join([i \in 1..(2 * Len(ops) + 1) |->
             IF i % 2 = 0 THEN ops[i \div 2]
             ELSE IF (i + 1) \div 2 = k THEN Decorate(form, OperandNames[k])
             ELSE <<OperandNames[(i + 1) \div 2]>>], <<" ">>)

ExpressionTexts ==
    UNION { {ExpressionText(ops, k, form) :
                ops \in [1..n -> BinaryOperators], k \in 1..(n + 1), form \in OperandForms} :
            n \in 0..MaxOperators }

\* a + b * c + d / e - f
SumOfProducts ==
    <<"a", " ", "+", " ", "b", " ", "*", " ", "c", " ", "+", " ", "d", " ", "/", " ", "e",
      " ", "-", " ", "f">>

\* (((a + (b * c)) + (d / e)) - f)
SumOfProductsGrouped ==
    <<"(", "(", "(", "a", " ", "+", " ", "(", "b", " ", "*", " ", "c", ")", ")", " ", "+",
      " ", "(", "d", " ", "/", " ", "e", ")", ")", " ", "-", " ", "f", ")">>

\* expressions of the parser tests, and calls and index accesses among operators
PrecedenceTexts ==
    \* -a * b
    { <<"-", "a", " ", "*", " ", "b">>,
    \* !-a
      <<"!", "-", "a">>,
    \* 5 > 4 == 3 < 4
      <<"5", " ", ">", " ", "4", " ", "=", "=", " ", "3", " ", "<", " ", "4">>,
    \* 3 + 4 * 5 == 3 * 1 + 4 * 5
      <<"3", " ", "+", " ", "4", " ", "*", " ", "5", " ", "=", "=", " ", "3", " ", "*",
        " ", "1", " ", "+", " ", "4", " ", "*", " ", "5">>,
    \* 1 + (2 + 3) + 4
      <<"1", " ", "+", " ", "(", "2", " ", "+", " ", "3", ")", " ", "+", " ", "4">>,
    \* -(5 + 5)
      <<"-", "(", "5", " ", "+", " ", "5", ")">>,
    \* !(true == true)
      <<"!", "(", "t", "r", "u", "e", " ", "=", "=", " ", "t", "r", "u", "e", ")">>,
    \* a + add(b * c) + d
      <<"a", " ", "+", " ", "a", "d", "d", "(", "b", " ", "*", " ", "c", ")", " ", "+",
        " ", "d">>,
    \* add(a, b, 1, 2 * 3, 4 + 5, add(6, 7 * 8))
      <<"a", "d", "d", "(", "a", ",", " ", "b", ",", " ", "1", ",", " ", "2", " ", "*",
        " ", "3", ",", " ", "4", " ", "+", " ", "5", ",", " ", "a", "d", "d", "(", "6",
        ",", " ", "7", " ", "*", " ", "8", ")", ")">>,
    \* a * b[c + d] * e
      <<"a", " ", "*", " ", "b", "[", "c", " ", "+", " ", "d", "]", " ", "*", " ", "e">>,
    \* -a(b)[c] + d
      <<"-", "a", "(", "b", ")", "[", "c", "]", " ", "+", " ", "d">>,
    \* a - -b * c
      <<"a", " ", "-", " ", "-", "b", " ", "*", " ", "c">> }
    \cup {SumOfProducts}

InitParser == LexerOff /\ ParserOff /\ ReplOff

\* parseProgram(lexer) on the generator createLexer(text) gave
ParseLexed(lexer) ==
    /\ ~lexer.hang
    /\ parsed' = parseProgram(lexer)

\* const [program, errors] = parseProgram(createLexer(text))
Parse(text) ==
    /\ parsed.tag = "none"
    /\ line' = text
    /\ ParseLexed(createLexer(text))
    /\ UNCHANGED <<lexVars, replVars, reparsed>>

\* parseProgram(lexer) on the generator over the rendering gave
Reparsed(lexer) ==
    /\ ~lexer.hang
    /\ reparsed' = parseProgram(lexer)

\* parseProgram(createLexer(`${program}`)) for the program parsed
Reparse ==
    /\ parsed.tag = "ok"
    /\ reparsed.tag = "none"
    /\ Reparsed(createLexer(toString(parsed.program)))
    /\ UNCHANGED <<lexVars, replVars, line, parsed>>

NextParser ==
    \/ \E text \in WordTexts \cup Texts \cup ParserTexts \cup ExpressionTexts \cup PrecedenceTexts :
           Parse(text)
    \/ Reparse

SpecParser == InitParser /\ [][NextParser]_vars

\* the rounds of the loop in which parseStatement failed
FailedRounds == SelectSeq(parsed.log, LAMBDA round : round.tag = "error")

Tree(kind, op, kids) == [kind |-> kind, op |-> op, kids |-> kids]

RECURSIVE Shape(_)
Shape(node) ==
    CASE node.type \in {"Identifier", "Integer", "Boolean"} ->
             Tree("leaf", node.token.literal, <<>>)
      [] node.type = "Prefix" -> Tree("prefix", node.operator, <<Shape(node.right)>>)
      [] node.type = "Infix" ->
             Tree("infix", node.operator, <<Shape(node.left), Shape(node.right)>>)
      [] node.type = "Call" ->
             Tree("call", <<>>,
                  <<Shape(node.functionIdentifier)>>
                  \o [i \in 1..Len(node.functionArguments) |-> Shape(node.functionArguments[i])])
      [] node.type = "Index" -> Tree("index", <<>>, <<Shape(node.left), Shape(node.index)>>)
      [] OTHER -> Tree("other", <<>>, <<>>)

\* The ranks of the binary operators: EQUALS < LESSGREATER < SUM < PRODUCT.
RankOf ==
    [EQ |-> 1, NOT_EQ |-> 1, LT |-> 2, GT |-> 2, PLUS |-> 3, MINUS |-> 3, SLASH |-> 4,
     ASTERISK |-> 4]

\* how many brackets are open in front of token i
Depth(toks, i) ==
    Cardinality({j \in 1..(i - 1) : toks[j].type \in {"LPAREN", "LBRACKET"}})
    - Cardinality({j \in 1..(i - 1) : toks[j].type \in {"RPAREN", "RBRACKET"}})

\* token i is a binary operator of the expression itself: outside every
\* bracket and behind the end of an operand
BinaryAt(toks, i) ==
    /\ i > 1
    /\ toks[i].type \in DOMAIN RankOf
    /\ Depth(toks, i) = 0
    /\ toks[i - 1].type \in {"IDENT", "INT", "TRUE", "FALSE", "RPAREN", "RBRACKET"}

Max(S) == CHOOSE x \in S : \A y \in S : y <= x

Min(S) == CHOOSE x \in S : \A y \in S : x <= y

Slice(toks, from, to) == [i \in 1..(to - from + 1) |-> toks[from + i - 1]]

\* The grouping the ranks ask for, read off the tokens of an expression: it
\* is split at the binary operator of the lowest rank, the rightmost of them
\* (operators of one rank group to the left); with no binary operator a unary
\* operator applies to all that follows it; a call or an index access applies
\* to all that precedes its bracket.
RECURSIVE Grouping(_), GroupingOfList(_)
Grouping(toks) ==
    LET n == Len(toks)
        binary == {i \in 1..n : BinaryAt(toks, i)}
        opener == Max({j \in 1..(n - 1) : toks[j].type \in {"LPAREN", "LBRACKET"}
                                           /\ Depth(toks, j) = 0})
    IN  IF binary # {}
        THEN LET lowest == Min({RankOf[toks[i].type] : i \in binary})
                 at == Max({i \in binary : RankOf[toks[i].type] = lowest})
             IN  Tree("infix", toks[at].literal,
                      <<Grouping(Slice(toks, 1, at - 1)), Grouping(Slice(toks, at + 1, n))>>)
        ELSE IF toks[1].type \in {"BANG", "MINUS"}
        THEN Tree("prefix", toks[1].literal, <<Grouping(Slice(toks, 2, n))>>)
        ELSE IF n = 1 THEN Tree("leaf", toks[1].literal, <<>>)
        ELSE IF opener = 1 THEN Grouping(Slice(toks, 2, n - 1))
        ELSE IF toks[n].type = "RPAREN"
        THEN Tree("call", <<>>,
                  <<Grouping(Slice(toks, 1, opener - 1))>>
                  \o GroupingOfList(Slice(toks, opener + 1, n - 1)))
        ELSE Tree("index", <<>>,
                  <<Grouping(Slice(toks, 1, opener - 1)),
                    Grouping(Slice(toks, opener + 1, n - 1))>>)

\* the groupings of the expressions of a list, a comma between two of them
GroupingOfList(toks) ==
    LET commas == {i \in 1..Len(toks) : toks[i].type = "COMMA" /\ Depth(toks, i) = 0}
    IN  IF toks = <<>> THEN <<>>
        ELSE IF commas = {} THEN <<Grouping(toks)>>
        ELSE <<Grouping(Slice(toks, 1, Min(commas) - 1))>>
             \o GroupingOfList(Slice(toks, Min(commas) + 1, Len(toks)))

\* the tokens of the text in front of EOF
TokensOf(text) ==
    LET tokens == lexAll(text, 0, <<>>).tokens IN Slice(tokens, 1, Len(tokens) - 1)

\* C12: operators are grouped by precedence.  For every expression built
\* from identifiers and literals, the eight binary operators, unary ! and -,
\* calls and index accesses, parseProgram gives one expression statement
\* whose tree binds an operator of a higher rank tighter than one of a lower
\* rank (EQUALS < LESSGREATER < SUM < PRODUCT < PREFIX < CALL < INDEX) and
\* groups operators of one rank to the left; a + b * c + d / e - f renders as
\* (((a + (b * c)) + (d / e)) - f).
C12_PrecedenceGrouping ==
    (parsed.tag # "none" /\ line \in ExpressionTexts \cup PrecedenceTexts) =>
        /\ parsed.tag = "ok"
        /\ Len(parsed.program.statements) = 1
        /\ parsed.program.statements[1].type = "Expression"
        /\ Shape(parsed.program.statements[1].expression) = Grouping(TokensOf(line))
        /\ line = SumOfProducts => toString(parsed.program) = SumOfProductsGrouped

\* a + b * c + d / e - f parsed and rendered
C12_Witness ==
    /\ line = SumOfProducts
    /\ parsed.tag = "ok"
    /\ toString(parsed.program) = SumOfProductsGrouped
    /\ Shape(parsed.program.statements[1].expression).kind = "infix"
    /\ Shape(parsed.program.statements[1].expression).op = <<"-">>

\* C13: the pretty-printer is idempotent.  For every program that parses,
\* lexing and parsing its rendering `${program}` succeeds and gives a
\* program with the same rendering: for programs of several statements,
\* return statements, if expressions, function literals and calls as well as
\* for single infix expressions.
C13_PrettyPrinterIdempotent ==
    reparsed.tag # "none" =>
        /\ reparsed.tag = "ok"
        /\ toString(reparsed.program) = toString(parsed.program)

(***************************************************************************)
(* The Parser class on its own: new Parser(new Lexer(text)).parseProgram() *)
(***************************************************************************)
InitParserClass == LexerOff /\ ParserOff /\ ReplOff

\* parseProgram() of the Parser object p gave
ParserParsed(r) ==
    parsed' = [tag |-> IF r.p.hang THEN "hang" ELSE "returned", program |-> r.data,
               errors |-> r.p.errors, advances |-> r.p.advances]

\* const program = new Parser(new Lexer(text)).parseProgram(), for a text
\* whose tokens the lexer hands out down to EOF
ParserParse(text) ==
    /\ parsed.tag = "none"
    /\ ~lexAll(text, 0, <<>>).hang
    /\ line' = text
    /\ ParserParsed(Parser_parseProgram(Parser_new(text)))
    /\ UNCHANGED <<lexVars, replVars, reparsed>>

NextParserClass == \E text \in WordTexts \cup Texts \cup ParserTexts : ParserParse(text)

SpecParserClass == InitParserClass /\ [][NextParserClass]_vars

\* C11: parsing terminates on every finite token sequence that ends with EOF:
\* parseProgram of the Parser class returns, with a finite list of errors and
\* after finitely many nextToken calls, also when a block of the text is
\* never closed (`if (x) { y`, `fn() { 1`) or a statement has no semicolon.
C11_ParsingTerminates ==
    parsed.tag # "none" =>
        /\ parsed.tag = "returned"
        /\ parsed.advances <= Len(lexAll(line, 0, <<>>).tokens) + 2

(***************************************************************************)
(* The evaluator on its own: one program, lexed, parsed and evaluated in   *)
(* a new Environment, as the first turn of the loop does                   *)
(***************************************************************************)
\* the Integer operands range over -MaxInt .. MaxInt
MaxInt == 7

Operands == -MaxInt .. MaxInt

DecimalDigits == <<"0", "1", "2", "3", "4", "5", "6", "7", "8", "9">>

\* the decimal numeral of a natural number
NumeralText(n) ==
    IF n < 10 THEN <<DecimalDigits[n + 1]>>
    ELSE <<DecimalDigits[(n \div 10) + 1], DecimalDigits[(n % 10) + 1]>>

\* the source text of the Integer n: a numeral, behind the prefix minus
IntegerText(n) == IF n < 0 THEN <<"-">> \o NumeralText(-n) ELSE NumeralText(n)

ArithmeticOperators == {<<"+">>, <<"-">>, <<"*">>, <<"/">>}

\* a op b
ArithmeticText(a, op, b) == IntegerText(a) \o <<" ">> \o op \o <<" ">> \o IntegerText(b)

ArithmeticTexts ==
    {ArithmeticText(a, op, b) : a \in Operands, op \in ArithmeticOperators, b \in Operands}

\* the operands of ! and the conditions of if: every type of value, Null
\* from an if without alternative, from an absent hash key and from a
\* missing array element, and Integer 0
TruthinessOperands ==
    { \* true
      <<"t", "r", "u", "e">>,
      \* false
      <<"f", "a", "l", "s", "e">>,
      \* (if (false) { 1 })
      <<"(", "i", "f", " ", "(", "f", "a", "l", "s", "e", ")", " ", "{", " ", "1", " ", "}",
       ")">>,
      \* 0
      <<"0">>,
      \* 1
      <<"1">>,
      \* -1
      <<"-", "1">>,
      \* ""
      <<"\"", "\"">>,
      \* "a"
      <<"\"", "a", "\"">>,
      \* []
      <<"[", "]">>,
      \* [0]
      <<"[", "0", "]">>,
      \* [false]
      <<"[", "f", "a", "l", "s", "e", "]">>,
      \* {}
      <<"{", "}">>,
      \* {1: 2}
      <<"{", "1", ":", " ", "2", "}">>,
      \* fn(x) { x }
      <<"f", "n", "(", "x", ")", " ", "{", " ", "x", " ", "}">>,
      \* len
      <<"l", "e", "n">>,
      \* fn() { false }()
      <<"f", "n", "(", ")", " ", "{", " ", "f", "a", "l", "s", "e", " ", "}", "(", ")">>,
      \* fn() { 0 }()
      <<"f", "n", "(", ")", " ", "{", " ", "0", " ", "}", "(", ")">>,
      \* (1 == 2)
      <<"(", "1", " ", "=", "=", " ", "2", ")">>,
      \* (!true)
      <<"(", "!", "t", "r", "u", "e", ")">>,
      \* [0][0]
      <<"[", "0", "]", "[", "0", "]">>,
      \* [0][1]
      <<"[", "0", "]", "[", "1", "]">>,
      \* {1: false}[1]
      <<"{", "1", ":", " ", "f", "a", "l", "s", "e", "}", "[", "1", "]">>,
      \* {1: 2}[0]
      <<"{", "1", ":", " ", "2", "}", "[", "0", "]">> }

\* !v
BangText(v) == <<"!">> \o v

\* if (v) { 1 } else { 2 }
IfElseText(v) ==
    <<"i", "f", " ", "(">> \o v \o
    <<")", " ", "{", " ", "1", " ", "}", " ", "e", "l", "s", "e", " ", "{", " ", "2", " ", "}">>

\* if (v) { 1 }
IfText(v) == <<"i", "f", " ", "(">> \o v \o <<")", " ", "{", " ", "1", " ", "}">>

TruthinessTexts ==
    TruthinessOperands \cup
    {BangText(v) : v \in TruthinessOperands} \cup
    {IfElseText(v) : v \in TruthinessOperands} \cup
    {IfText(v) : v \in TruthinessOperands}

\* the operands of the infix expressions: two Integers, two Strings, the two
\* Booleans, Null, an Array, a Hash, a Function and a Builtin
TypeOperands ==
    { \* 1
      <<"1">>,
      \* 2
      <<"2">>,
      \* "a"
      <<"\"", "a", "\"">>,
      \* "b"
      <<"\"", "b", "\"">>,
      \* true
      <<"t", "r", "u", "e">>,
      \* false
      <<"f", "a", "l", "s", "e">>,
      \* (if (false) { 1 })
      <<"(", "i", "f", " ", "(", "f", "a", "l", "s", "e", ")", " ", "{", " ", "1", " ", "}", ")">>,
      \* [1]
      <<"[", "1", "]">>,
      \* {1: 2}
      <<"{", "1", ":", " ", "2", "}">>,
      \* fn(x) { x }
      <<"f", "n", "(", "x", ")", " ", "{", " ", "x", " ", "}">>,
      \* len
      <<"l", "e", "n">> }

InfixOperators ==
    {<<"+">>, <<"-">>, <<"*">>, <<"/">>, <<"<">>, <<">">>, <<"=", "=">>, <<"!", "=">>}

\* l op r
InfixText(l, op, r) == l \o <<" ">> \o op \o <<" ">> \o r

InfixTexts == {InfixText(l, op, r) : l \in TypeOperands, op \in InfixOperators, r \in TypeOperands}

\* names that no program of IdentifierTexts binds before it reads them
UnboundNames ==
    {<<"x">>, <<"z", "z">>, <<"t","o","S","t","r","i","n","g">>,
     <<"c","o","n","s","t","r","u","c","t","o","r">>, <<"v","a","l","u","e","O","f">>}

\* let <name> = 1; <name>
LetThenName(name) == <<"l", "e", "t", " ">> \o name \o <<" ", "=", " ", "1", ";", " ">> \o name

\* let <name> = 1; fn() { <name> }()
LetThenNameInFunction(name) ==
    <<"l", "e", "t", " ">> \o name \o <<" ", "=", " ", "1", ";", " ", "f", "n", "(", ")", " ", "{", " ">>
        \o name \o <<" ", "}", "(", ")">>

IdentifierTexts ==
    UnboundNames \cup BuiltinNames \cup
    {LetThenName(name) : name \in UnboundNames \cup BuiltinNames} \cup
    {LetThenNameInFunction(name) : name \in UnboundNames \cup BuiltinNames}

\* the arrays have up to MaxArrayLen elements
MaxArrayLen == 3

\* element k of the arrays (counted from 0) is the Integer 10 * (k + 1)
ElementValue(k) == 10 * (k + 1)

RECURSIVE ElementsText(_)
\* 10, 20, ..., 10 * n
ElementsText(n) ==
    IF n = 0 THEN <<>>
    ELSE IF n = 1 THEN NumeralText(ElementValue(0))
    ELSE ElementsText(n - 1) \o <<",", " ">> \o NumeralText(ElementValue(n - 1))

\* [10, 20, ..., 10 * n][index]
IndexText(n, index) == <<"[">> \o ElementsText(n) \o <<"]", "[">> \o index \o <<"]">>

\* the whole-number indexes: two past either end of the longest array
WholeIndexes == -(MaxArrayLen + 2) .. (MaxArrayLen + 2)

\* indexes of every other type
NonIntegerIndexes ==
    { \* true
      <<"t", "r", "u", "e">>,
      \* "a"
      <<"\"", "a", "\"">>,
      \* [0]
      <<"[", "0", "]">>,
      \* {1: 2}
      <<"{", "1", ":", " ", "2", "}">>,
      \* fn(x) { x }
      <<"f", "n", "(", "x", ")", " ", "{", " ", "x", " ", "}">>,
      \* len
      <<"l", "e", "n">>,
      \* (if (false) { 1 })
      <<"(", "i", "f", " ", "(", "f", "a", "l", "s", "e", ")", " ", "{", " ", "1", " ", "}", ")">> }

\* Integer indexes that arithmetic makes: 0 / 0, 1 / 0, -1 / 0 and 0 * -1
ComputedIndexes ==
    {<<"0", " ", "/", " ", "0">>, <<"1", " ", "/", " ", "0">>, <<"-", "1", " ", "/", " ", "0">>,
     <<"0", " ", "*", " ", "-", "1">>}

ArrayIndexTexts ==
    {IndexText(n, IntegerText(i)) : n \in 0 .. MaxArrayLen, i \in WholeIndexes} \cup
    {IndexText(n, index) : n \in 0 .. MaxArrayLen, index \in NonIntegerIndexes \cup ComputedIndexes}

\* the hash literals have up to MaxPairs pairs
MaxPairs == 3

\* the keys of the hash literals, one text for every key: the Integer 1, the
\* String "1" and the two Booleans
HashKeys ==
    { \* 1
      <<"1">>,
      \* "1"
      <<"\"", "1", "\"">>,
      \* true
      <<"t", "r", "u", "e">>,
      \* false
      <<"f", "a", "l", "s", "e">> }

\* indexes that are not hashable
UnhashableIndexes ==
    { \* [1]
      <<"[", "1", "]">>,
      \* {1: 2}
      <<"{", "1", ":", " ", "2", "}">>,
      \* fn(x) { x }
      <<"f", "n", "(", "x", ")", " ", "{", " ", "x", " ", "}">>,
      \* len
      <<"l", "e", "n">>,
      \* (if (false) { 1 })
      <<"(", "i", "f", " ", "(", "f", "a", "l", "s", "e", ")", " ", "{", " ", "1", " ", "}", ")">> }

\* the key lists of the literals: every list of up to MaxPairs keys
KeyLists == UNION {[1 .. n -> HashKeys] : n \in 0 .. MaxPairs}

RECURSIVE PairsText(_, _)
\* k1: 10, k2: 20, ... for the first n keys: pair j has the value 10 * j
PairsText(keys, n) ==
    IF n = 0 THEN <<>>
    ELSE (IF n = 1 THEN <<>> ELSE PairsText(keys, n - 1) \o <<",", " ">>)
             \o keys[n] \o <<":", " ">> \o NumeralText(10 * n)

\* {k1: 10, k2: 20, ...}[index]
HashIndexText(keys, index) ==
    <<"{">> \o PairsText(keys, Len(keys)) \o <<"}", "[">> \o index \o <<"]">>

HashIndexTexts ==
    {HashIndexText(keys, index) : keys \in KeyLists, index \in HashKeys \cup UnhashableIndexes}

\* the builtins are called with up to MaxArguments arguments
MaxArguments == 3

\* the arguments of the builtin calls: an Integer, a String, two Arrays and a
\* Boolean
BuiltinArguments ==
    { \* 1
      <<"1">>,
      \* "ab"
      <<"\"", "a", "b", "\"">>,
      \* []
      <<"[", "]">>,
      \* [1, 2]
      <<"[", "1", ",", " ", "2", "]">>,
      \* true
      <<"t", "r", "u", "e">> }

ArgumentLists == UNION {[1 .. n -> BuiltinArguments] : n \in 0 .. MaxArguments}

RECURSIVE ArgumentsText(_, _)
\* a1, a2, ... for the first n arguments
ArgumentsText(arguments, n) ==
    IF n = 0 THEN <<>>
    ELSE (IF n = 1 THEN <<>> ELSE ArgumentsText(arguments, n - 1) \o <<",", " ">>) \o arguments[n]

\* builtin(a1, a2, ...)
BuiltinCallText(builtin, arguments) ==
    builtin \o <<"(">> \o ArgumentsText(arguments, Len(arguments)) \o <<")">>

BuiltinCallTexts ==
    {BuiltinCallText(builtin, arguments) : builtin \in BuiltinNames, arguments \in ArgumentLists}

\* a name bound to an array is passed to up to MaxCalls array builtins
MaxCalls == 2

\* push(a, 9), prepend(a, 9), tail(a) and init(a)
ArrayCalls ==
    {<<"p", "u", "s", "h", "(", "a", ",", " ", "9", ")">>,
     <<"p", "r", "e", "p", "e", "n", "d", "(", "a", ",", " ", "9", ")">>,
     <<"t", "a", "i", "l", "(", "a", ")">>, <<"i", "n", "i", "t", "(", "a", ")">>}

CallLists == UNION {[1 .. n -> ArrayCalls] : n \in 1 .. MaxCalls}

\* let a = [10, 20, ..., 10 * n];
LetArrayText(n) ==
    <<"l", "e", "t", " ", "a", " ", "=", " ", "[">> \o ElementsText(n) \o <<"]", ";">>

RECURSIVE CallsText(_, _)
\* " c1; c2; ..." for the first n calls
CallsText(calls, n) ==
    IF n = 0 THEN <<>> ELSE CallsText(calls, n - 1) \o <<" ">> \o calls[n] \o <<";">>

\* let a = [...]; c1; c2; a
KeptText(n, calls) == LetArrayText(n) \o CallsText(calls, Len(calls)) \o <<" ", "a">>

\* let a = [...]; c
ReturnedText(n, call) == LetArrayText(n) \o <<" ">> \o call

ArrayBuiltinTexts ==
    {KeptText(n, calls) : n \in 0 .. MaxArrayLen, calls \in CallLists} \cup
    {ReturnedText(n, call) : n \in 0 .. MaxArrayLen, call \in ArrayCalls}

\* a return statement lies in up to MaxDepth nested if-blocks
MaxDepth == 3

RECURSIVE ReturnIn(_, _)
\* return 1; in `depth` nested blocks, each followed by a statement to skip:
\* if (true) { ... 7 } for the consequence, if (false) { 7 } else { ... 7 }
\* for the alternative
ReturnIn(depth, branch) ==
    IF depth = 0 THEN <<"r", "e", "t", "u", "r", "n", " ", "1", ";">>
    ELSE (IF branch = "consequence" THEN <<"i", "f", " ", "(", "t", "r", "u", "e", ")", " ", "{", " ">>
          ELSE <<"i", "f", " ", "(", "f", "a", "l", "s", "e", ")", " ", "{", " ", "7", " ", "}", " ", "e", "l", "s", "e", " ", "{", " ">>)
             \o ReturnIn(depth - 1, branch) \o <<" ", "7", " ", "}">>

Branches == {"consequence", "alternative"}

\* let f = fn() { <return in blocks> 2 }; f()
CallText(depth, branch) ==
    <<"l", "e", "t", " ", "f", " ", "=", " ", "f", "n", "(", ")", " ", "{", " ">> \o ReturnIn(depth, branch)
        \o <<" ", "2", " ", "}", ";", " ", "f", "(", ")">>

\* let f = fn() { <return in blocks> 2 }; f(); 3
CallThenText(depth, branch) == CallText(depth, branch) \o <<";", " ", "3">>

\* <return in blocks> 2
TopLevelText(depth, branch) == ReturnIn(depth, branch) \o <<" ", "2">>

\* let f = fn() { let x = if (true) { return 1; 7 }; 2 }; f()
ReturnInLetValue ==
    <<"l", "e", "t", " ", "f", " ", "=", " ", "f", "n", "(", ")", " ", "{", " ", "l", "e", "t",
      " ", "x", " ", "=", " ", "i", "f", " ", "(", "t", "r", "u", "e", ")", " ", "{", " ", "r",
      "e", "t", "u", "r", "n", " ", "1", ";", " ", "7", " ", "}", ";", " ", "2", " ", "}", ";",
      " ", "f", "(", ")">>

\* let f = fn() { return if (true) { return 1; 7 }; 2 }; f(); 3
ReturnInReturnValue ==
    <<"l", "e", "t", " ", "f", " ", "=", " ", "f", "n", "(", ")", " ", "{", " ", "r", "e", "t",
      "u", "r", "n", " ", "i", "f", " ", "(", "t", "r", "u", "e", ")", " ", "{", " ", "r", "e",
      "t", "u", "r", "n", " ", "1", ";", " ", "7", " ", "}", ";", " ", "2", " ", "}", ";", " ",
      "f", "(", ")", ";", " ", "3">>

ReturnTexts ==
    {CallText(depth, branch) : depth \in 0 .. MaxDepth, branch \in Branches} \cup
    {CallThenText(depth, branch) : depth \in 0 .. MaxDepth, branch \in Branches} \cup
    {TopLevelText(depth, branch) : depth \in 0 .. MaxDepth, branch \in Branches} \cup
    {ReturnInLetValue, ReturnInReturnValue}

\* operands and arguments whose evaluation can be told apart: two names
\* that are not bound (two different Errors), and three values
OrderOperands ==
    { \* zz
      <<"z", "z">>,
      \* yy
      <<"y", "y">>,
      \* 1
      <<"1">>,
      \* true
      <<"t", "r", "u", "e">>,
      \* [2]
      <<"[", "2", "]">> }

\* what is called: a name that is not bound, an Integer, a builtin, a function
Callees ==
    { \* ww
      <<"w", "w">>,
      \* 5
      <<"5">>,
      \* push
      <<"p", "u", "s", "h">>,
      \* fn(x, y) { x }
      <<"f", "n", "(", "x", ",", " ", "y", ")", " ", "{", " ", "x", " ", "}">> }

\* the argument lists: one or two different operands
OrderArguments ==
    {arguments \in UNION {[1 .. n -> OrderOperands] : n \in 1 .. 2} :
        Len(arguments) = 2 => arguments[1] # arguments[2]}

OrderTexts ==
    {InfixText(pair[1], op, pair[2]) :
        pair \in {q \in OrderOperands \X OrderOperands : q[1] # q[2]}, op \in InfixOperators} \cup
    {BuiltinCallText(callee, arguments) : callee \in Callees, arguments \in OrderArguments}

\* value expressions that evaluate to an Error; the last two execute let
\* statements in a block of an if expression before the Error
ErrorValues ==
    { \* 5 + true
      <<"5", " ", "+", " ", "t", "r", "u", "e">>,
      \* zz
      <<"z", "z">>,
      \* -true
      <<"-", "t", "r", "u", "e">>,
      \* [1][zz]
      <<"[", "1", "]", "[", "z", "z", "]">>,
      \* len(1)
      <<"l", "e", "n", "(", "1", ")">>,
      \* if (true) { zz }
      <<"i", "f", " ", "(", "t", "r", "u", "e", ")", " ", "{", " ", "z", "z", " ", "}">>,
      \* fn(x) { zz }(1)
      <<"f", "n", "(", "x", ")", " ", "{", " ", "z", "z", " ", "}", "(", "1", ")">>,
      \* fn(x) { let q = 1; zz }(1)
      <<"f", "n", "(", "x", ")", " ", "{", " ", "l", "e", "t", " ", "q", " ", "=", " ", "1", ";", " ", "z", "z", " ", "}", "(", "1", ")">>,
      \* if (1 < 2) { let q = 1; zz }
      <<"i", "f", " ", "(", "1", " ", "<", " ", "2", ")", " ", "{", " ", "l", "e", "t", " ", "q", " ", "=", " ", "1", ";", " ", "z", "z", " ", "}">>,
      \* if (false) { 1 } else { let q = 7; let r = q; zz }
      <<"i", "f", " ", "(", "f", "a", "l", "s", "e", ")", " ", "{", " ", "1", " ", "}", " ", "e", "l", "s", "e", " ", "{", " ", "l", "e", "t", " ", "q", " ", "=", " ", "7", ";", " ", "l", "e", "t", " ", "r", " ", "=", " ", "q", ";", " ", "z", "z", " ", "}">> }

\* the names a let statement that fails is given: a new one, and one bound before
FailedNames == {<<"b">>, <<"a">>}

\* let a = 1; let <name> = <value>; let c = 2
LetErrorText(name, value) ==
    <<"l", "e", "t", " ", "a", " ", "=", " ", "1", ";", " ", "l", "e", "t", " ">> \o name \o <<" ", "=", " ">> \o value
        \o <<";", " ", "l", "e", "t", " ", "c", " ", "=", " ", "2">>

\* let f = fn() { let a = 1; let <name> = <value>; let c = 2 }; f()
LetErrorInFunctionText(name, value) ==
    <<"l", "e", "t", " ", "f", " ", "=", " ", "f", "n", "(", ")", " ", "{", " ">> \o LetErrorText(name, value) \o <<" ", "}", ";", " ", "f", "(", ")">>

LetErrorTexts ==
    {LetErrorText(name, value) : name \in FailedNames, value \in ErrorValues} \cup
    {LetErrorInFunctionText(name, value) : name \in FailedNames, value \in ErrorValues}

RECURSIVE LetIn(_, _)
\* let q = 1; in `depth` nested blocks: if (true) { ... } for the
\* consequence, if (false) { 7 } else { ... } for the alternative
LetIn(depth, branch) ==
    IF depth = 0 THEN <<"l", "e", "t", " ", "q", " ", "=", " ", "1", ";">>
    ELSE (IF branch = "consequence" THEN <<"i", "f", " ", "(", "t", "r", "u", "e", ")", " ", "{", " ">>
          ELSE <<"i", "f", " ", "(", "f", "a", "l", "s", "e", ")", " ", "{", " ", "7", " ", "}", " ", "e", "l", "s", "e", " ", "{", " ">>)
             \o LetIn(depth - 1, branch) \o <<" ", "}">>

\* <let in blocks>; q
BlockLetText(depth, branch) == LetIn(depth, branch) \o <<";", " ", "q">>

\* let q = 5; <let in blocks>; q
BlockRebindText(depth, branch) == <<"l", "e", "t", " ", "q", " ", "=", " ", "5", ";", " ">> \o BlockLetText(depth, branch)

\* let f = fn() { <let in blocks>; q }; f()
BlockLetInFunctionText(depth, branch) ==
    <<"l", "e", "t", " ", "f", " ", "=", " ", "f", "n", "(", ")", " ", "{", " ">> \o BlockLetText(depth, branch) \o <<" ", "}", ";", " ", "f", "(", ")">>

\* let f = fn() { <let in blocks>; q }; f(); q
FunctionScopeText(depth, branch) == BlockLetInFunctionText(depth, branch) \o <<";", " ", "q">>

\* let q = 5; let f = fn() { <let in blocks>; q }; f(); q
FunctionShadowText(depth, branch) == <<"l", "e", "t", " ", "q", " ", "=", " ", "5", ";", " ">> \o FunctionScopeText(depth, branch)

BlockScopeTexts ==
    UNION {{BlockLetText(depth, branch), BlockRebindText(depth, branch),
            BlockLetInFunctionText(depth, branch), FunctionScopeText(depth, branch),
            FunctionShadowText(depth, branch)} : depth \in 1 .. MaxDepth, branch \in Branches}

\* let f = fn() { g }; let g = <v>; f()
LateBindingText(v) == <<"l", "e", "t", " ", "f", " ", "=", " ", "f", "n", "(", ")", " ", "{", " ", "g", " ", "}", ";", " ", "l", "e", "t", " ", "g", " ", "=", " ">> \o NumeralText(v) \o <<";", " ", "f", "(", ")">>

\* let f = fn() { g }; let g = 0; f(); let g = <v>; f()
LateRebindingText(v) == <<"l", "e", "t", " ", "f", " ", "=", " ", "f", "n", "(", ")", " ", "{", " ", "g", " ", "}", ";", " ", "l", "e", "t", " ", "g", " ", "=", " ", "0", ";", " ", "f", "(", ")", ";", " ", "l", "e", "t", " ", "g", " ", "=", " ">> \o NumeralText(v) \o <<";", " ", "f", "(", ")">>

\* let mk = fn() { let h = fn() { k }; let k = <v>; h }; mk()()
LateInCallText(v) == <<"l", "e", "t", " ", "m", "k", " ", "=", " ", "f", "n", "(", ")", " ", "{", " ", "l", "e", "t", " ", "h", " ", "=", " ", "f", "n", "(", ")", " ", "{", " ", "k", " ", "}", ";", " ", "l", "e", "t", " ", "k", " ", "=", " ">> \o NumeralText(v) \o <<";", " ", "h", " ", "}", ";", " ", "m", "k", "(", ")", "(", ")">>

\* a function calls itself up to MaxRecursion times
MaxRecursion == 2

\* let down = fn(n) { if (n < 1) { 0 } else { 1 + down(n - 1) } }; down(<v>)
CountDownText(v) == <<"l", "e", "t", " ", "d", "o", "w", "n", " ", "=", " ", "f", "n", "(", "n", ")", " ", "{", " ", "i", "f", " ", "(", "n", " ", "<", " ", "1", ")", " ", "{", " ", "0", " ", "}", " ", "e", "l", "s", "e", " ", "{", " ", "1", " ", "+", " ", "d", "o", "w", "n", "(", "n", " ", "-", " ", "1", ")", " ", "}", " ", "}", ";", " ", "d", "o", "w", "n", "(">> \o NumeralText(v) \o <<")">>

\* let iter = fn(arr, acc) { if (len(arr) == 0) { acc } else { iter(tail(arr), acc + head(arr)) } };
\* iter([10, 20, ..., 10 * n], 0)
IterText(n) ==
    <<"l", "e", "t", " ", "i", "t", "e", "r", " ", "=", " ", "f", "n", "(", "a", "r", "r", ",", " ", "a", "c", "c", ")", " ", "{", " ", "i", "f", " ", "(", "l", "e", "n", "(", "a", "r", "r", ")", " ", "=", "=", " ", "0", ")", " ", "{", " ", "a", "c", "c", " ", "}", " ">>
        \o <<"e", "l", "s", "e", " ", "{", " ", "i", "t", "e", "r", "(", "t", "a", "i", "l", "(", "a", "r", "r", ")", ",", " ", "a", "c", "c", " ", "+", " ", "h", "e", "a", "d", "(", "a", "r", "r", ")", ")", " ", "}", " ", "}", ";", " ", "i", "t", "e", "r", "(", "[">>
        \o ElementsText(n) \o <<"]", ",", " ", "0", ")">>

ClosureTexts ==
    UNION {{LateBindingText(v), LateRebindingText(v), LateInCallText(v)} : v \in 0 .. MaxInt} \cup
    {CountDownText(v) : v \in 0 .. MaxRecursion} \cup
    {IterText(n) : n \in 0 .. MaxRecursion}

\* a parameter list holds up to MaxParameters items
MaxParameters == 2

\* what stands in the place of a parameter: two identifiers, two numerals
\* and a keyword
ParameterItems == {<<"x">>, <<"y">>, <<"1">>, <<"2">>, <<"t", "r", "u", "e">>}

ParameterLists == UNION {[1 .. n -> ParameterItems] : n \in 0 .. MaxParameters}

RECURSIVE ItemsText(_, _)
\* the first n items, separated by ", "
ItemsText(items, n) ==
    IF n = 0 THEN <<>>
    ELSE IF n = 1 THEN items[1]
    ELSE ItemsText(items, n - 1) \o <<",", " ">> \o items[n]

\* fn(<items>) {}, and fn(<items>, ) {} with a comma behind the last item
FunctionText(items, trailing) ==
    <<"f", "n", "(">> \o ItemsText(items, Len(items))
        \o (IF trailing THEN <<",", " ">> ELSE <<>>) \o <<")", " ", "{", "}">>

ParameterTexts ==
    {FunctionText(items, trailing) : items \in ParameterLists, trailing \in BOOLEAN}

RECURSIVE NumeralsText(_)
\* 1, 2, ..., n
NumeralsText(n) ==
    IF n = 0 THEN <<>>
    ELSE IF n = 1 THEN NumeralText(1)
    ELSE NumeralsText(n - 1) \o <<",", " ">> \o NumeralText(n)

\* the names of the two parameters, which the body reads
ParameterNames == <<"x", "y">>

\* [let x = 5; let y = 6; ]let f = fn(x, y) { <x or y> }; f(1, ..., n): the
\* captured environment binds the names of the parameters or does not, and
\* the call hands over n arguments
ShadowText(outer, k, n) ==
    (IF outer THEN <<"l", "e", "t", " ", "x", " ", "=", " ", "5", ";", " ", "l", "e", "t", " ", "y", " ", "=", " ", "6", ";", " ">> ELSE <<>>)
        \o <<"l", "e", "t", " ", "f", " ", "=", " ", "f", "n", "(", "x", ",", " ", "y", ")", " ", "{", " ">> \o <<ParameterNames[k]>> \o <<" ", "}", ";", " ", "f", "(">>
        \o NumeralsText(n) \o <<")">>

ShadowTexts ==
    {ShadowText(outer, k, n) : outer \in BOOLEAN, k \in 1 .. 2, n \in 0 .. MaxArguments}

EvaluatorTexts ==
    ArithmeticTexts \cup TruthinessTexts \cup InfixTexts \cup IdentifierTexts \cup
    ArrayIndexTexts \cup HashIndexTexts \cup BuiltinCallTexts \cup ArrayBuiltinTexts \cup
    ReturnTexts \cup OrderTexts \cup LetErrorTexts \cup BlockScopeTexts \cup
    ClosureTexts \cup ParameterTexts \cup ShadowTexts

InitEvaluator == InitRepl

\* evaluate(parseProgram(getLexer(text)), new Environment())
Evaluate(text) ==
    /\ lineNo = 0
    /\ ReplLine(text)

NextEvaluator == \E text \in EvaluatorTexts : Evaluate(text)

SpecEvaluator == InitEvaluator /\ [][NextEvaluator]_vars

\* the value is the Integer n (the zero of either sign for n = 0)
IsInteger(value, n) ==
    /\ value.type = "INTEGER"
    /\ value.value = Fin(n) \/ (n = 0 /\ value.value = NegZero)

\* the quotient rounded toward negative infinity, from its definition:
\* the one q with q * b <= a < (q + 1) * b, the inequalities turned for b < 0
Floor(a, b) ==
    CHOOSE q \in -MaxInt .. MaxInt :
        IF b > 0 THEN q * b <= a /\ a < (q + 1) * b
        ELSE q * b >= a /\ a > (q + 1) * b

\* C14: for Integers a and b, a + b, a - b and a * b evaluate to the ordinary
\* sum, difference and product, and for b # 0, a / b evaluates to the Integer
\* floor(a / b), the quotient rounded toward negative infinity
\* (7 / 2 = 3, -7 / 2 = -4, 7 / -2 = -4).
C14_IntegerArithmetic ==
    line \in ArithmeticTexts =>
        \A a \in Operands, b \in Operands :
            /\ line = ArithmeticText(a, <<"+">>, b) => IsInteger(result, a + b)
            /\ line = ArithmeticText(a, <<"-">>, b) => IsInteger(result, a - b)
            /\ line = ArithmeticText(a, <<"*">>, b) => IsInteger(result, a * b)
            /\ line = ArithmeticText(a, <<"/">>, b) /\ b # 0 => IsInteger(result, Floor(a, b))

\* -7 / 2 has been evaluated, to -4
C14_Witness ==
    /\ line = ArithmeticText(-7, <<"/">>, 2)
    /\ IsInteger(result, -4)

\* what the text evaluates to in a new Environment
ValueOf(text) ==
    ReplEvaluate(parseProgram(createLexer(text)).program, <<Environment(EmptyStore, 0)>>, 0).v

\* the canonical false or Null
Falsy(value) == value = FALSE_ \/ value = NULL

\* C15: ! and if share one truthiness rule: for a value v that is no Error,
\* !v is the canonical true exactly when v is the canonical false or Null and
\* the canonical false otherwise (Integer 0, strings, arrays, hashes and
\* functions included); if (v) evaluates its consequence exactly when !v is
\* false, else its alternative, or yields Null without an alternative.
C15_OneTruthinessRule ==
    line \in TruthinessTexts =>
        \A v \in TruthinessOperands :
            /\ line = BangText(v) /\ ~IsError(ValueOf(v)) =>
                   result = IF Falsy(ValueOf(v)) THEN TRUE_ ELSE FALSE_
            /\ line = IfElseText(v) /\ ~IsError(ValueOf(v)) =>
                   result = IF Falsy(ValueOf(v)) THEN Integer(Fin(2)) ELSE Integer(Fin(1))
            /\ line = IfText(v) /\ ~IsError(ValueOf(v)) =>
                   result = IF Falsy(ValueOf(v)) THEN NULL ELSE Integer(Fin(1))

\* if (0) { 1 } has been evaluated: Integer 0 chose the consequence
C15_Witness ==
    /\ line = IfText(<<"0">>)
    /\ ValueOf(<<"0">>) = Integer(Fin(0))
    /\ result = Integer(Fin(1))

\* the Error an infix expression gives: <head><L> <op> <R>
InfixError(head, l, op, r) == Error(<<head, l.type, " ">> \o op \o <<" ", r.type>>)

\* what l op r has to evaluate to, for the values l and r of its operands
InfixRule(l, op, r, value) ==
    IF l.type # r.type
    THEN value = InfixError("Unexpected type on operation: ", l, op, r)
    ELSE IF l.type = "STRING"
    THEN value = IF op = <<"+">> THEN String(l.value \o r.value)
                 ELSE InfixError("Unknown operator: ", l, op, r)
    ELSE IF l.type = "INTEGER" THEN TRUE
    ELSE IF op \in {<<"=", "=">>, <<"!", "=">>} THEN value.type = "BOOLEAN"
    ELSE value = InfixError("Unknown operator: ", l, op, r)

\* C16: the type rules of infix expressions on operands that are no Errors:
\* operands of different types give Error "Unexpected type on operation:
\* <L> <op> <R>" whatever the operator; two strings are concatenated by + and
\* give Error "Unknown operator: STRING <op> STRING" for every other operator,
\* == and != included; two operands of one type other than Integer and String
\* have == and != only, every other operator is Error "Unknown operator:
\* <T> <op> <T>".
C16_InfixTypeRules ==
    line \in InfixTexts =>
        \A l \in TypeOperands, r \in TypeOperands, op \in InfixOperators :
            line = InfixText(l, op, r) /\ ~IsError(ValueOf(l)) /\ ~IsError(ValueOf(r)) =>
                InfixRule(ValueOf(l), op, ValueOf(r), result)

\* "a" == "b" has been evaluated, to Error "Unknown operator: STRING == STRING"
C16_Witness ==
    /\ line = InfixText(<<"\"", "a", "\"">>, <<"=", "=">>, <<"\"", "b", "\"">>)
    /\ result = Error(<<"Unknown operator: ", "STRING", " ", "=", "=", " ", "STRING">>)

ArrayIndexRule(n, i, value) ==
    IF 0 <= i /\ i < n THEN value = Integer(Fin(ElementValue(i)))
    ELSE IF -n <= i /\ i < 0 THEN value = Integer(Fin(ElementValue(n + i)))
    ELSE value = Error(<<"Index access out of bounds. Index: ", ToString(i),
                         ". Array len: ", ToString(n)>>)

\* the array of n elements indexed with a whole number
WholeIndexRule ==
    line \in ArrayIndexTexts =>
    \A n \in 0 .. MaxArrayLen, i \in WholeIndexes :
        line = IndexText(n, IntegerText(i)) => ArrayIndexRule(n, i, result)

\* the array of n elements indexed with a value that is no Integer
NonIntegerIndexRule ==
    line \in ArrayIndexTexts =>
    \A n \in 0 .. MaxArrayLen, index \in NonIntegerIndexes :
        line = IndexText(n, index) => result = Error(<<"Invalid index: ", ValueOf(index).type>>)

\* the array of n elements indexed with an Integer that is a zero (element 0,
\* if there is one) or no whole number (none of the two ranges holds it)
ComputedIndexRule ==
    line \in ArrayIndexTexts =>
    \A n \in 0 .. MaxArrayLen, index \in ComputedIndexes :
        line = IndexText(n, index) /\ ValueOf(index).type = "INTEGER" =>
            IF IsZero(ValueOf(index).value) /\ n > 0
            THEN result = Integer(Fin(ElementValue(0)))
            ELSE result.type = "ERROR" /\ SubSeq(result.message, 1, 1) =
                                             <<"Index access out of bounds. Index: ">>

\* C18: indexing an Array of n elements with the Integer i gives element i for
\* 0 <= i < n, element n + i for -n <= i < 0 and Error "Index access out of
\* bounds. Index: <i>. Array len: <n>" for every other i; an index that is no
\* Integer gives Error "Invalid index: <type>".
C18_ArrayIndexing == WholeIndexRule /\ NonIntegerIndexRule /\ ComputedIndexRule

\* the index expression that the line parsed to
IndexNode == parsed.program.statements[1].expression

\* the pairs of the literal whose key is equal to the index in type and value
PairsWithKey(pairs, index) ==
    {j \in 1 .. Len(pairs) : pairs[j][1].type = index.type /\ pairs[j][1].value = index.value}

\* C19: indexing a hash built from a literal with a hashable value gives the
\* value of the last pair of the literal whose key equals the index in type
\* and in value, and Null, no Error, when no pair has that key; keys of
\* different types never collide (1, "1" and true are three keys); indexing
\* with a value that is not hashable gives Error "Unusable hash key: <type>".
C19_HashIndexing ==
    line \in HashIndexTexts =>
        IF IndexNode.index.type \in {"Integer", "String", "Boolean"}
        THEN result = IF PairsWithKey(IndexNode.left.pairs, IndexNode.index) = {} THEN NULL
                      ELSE Integer(Fin(IndexNode.left.pairs[
                               Max(PairsWithKey(IndexNode.left.pairs, IndexNode.index))][2].value))
        ELSE result = Error(<<"Unusable hash key: ",
                              ReplEvaluate(IndexNode.index, <<Environment(EmptyStore, 0)>>, 0).v.type>>)

\* {1: 10, "1": 20, 1: 30}["1"] has been evaluated, to 20
C19_Witness ==
    /\ line = HashIndexText(<< <<"1">>, <<"\"", "1", "\"">>, <<"1">> >>, <<"\"", "1", "\"">>)
    /\ result = Integer(Fin(20))

\* the call expression that the line parsed to
CallNode == parsed.program.statements[1].expression

\* the builtins of two arguments; the others take one
TakesTwo(builtin) == builtin \in {<<"p","u","s","h">>, <<"p","r","e","p","e","n","d">>}

\* the number of arguments is wrong for the builtin
WrongCount(builtin, n) == n # (IF TakesTwo(builtin) THEN 2 ELSE 1)

\* the first argument node is of a type the builtin does not take: len takes
\* a String or an Array, every other builtin an Array
WrongType(builtin, argument) ==
    /\ argument.type # "Array"
    /\ ~(builtin = <<"l","e","n">> /\ argument.type = "String")

\* C20: every builtin (len, head, last, tail, init, push, prepend) checks the
\* number and the type of its arguments before it acts: called with any
\* number of arguments, none included, of any types it returns a value, an
\* Error whenever the number or the type is wrong, and never raises a host
\* exception.
C20_BuiltinsValidate ==
    line \in BuiltinCallTexts =>
        /\ result.type \notin {"THROW", "undefined"}
        /\ replStatus = "running"
        /\ \/ WrongCount(CallNode.functionIdentifier.value, Len(CallNode.functionArguments))
           \/ WrongType(CallNode.functionIdentifier.value, CallNode.functionArguments[1])
           => result.type = "ERROR"

\* the elements of the array literal [10, 20, ..., 10 * n]
ElementsOf(n) == [k \in 1 .. n |-> Integer(Fin(ElementValue(k - 1)))]

\* what the call has to return for an array of these elements
Returned(call, elements) ==
    CASE call[2] = "u" -> Append(elements, Integer(Fin(9)))
      [] call[2] = "r" -> <<Integer(Fin(9))>> \o elements
      [] call[2] = "a" -> IF elements = <<>> THEN <<>> ELSE Tail(elements)
      [] call[2] = "n" -> IF elements = <<>> THEN <<>> ELSE SubSeq(elements, 1, Len(elements) - 1)

\* the value the session binds to a
BoundToA == heap[1].store[<<"a">>]

\* C21: the array builtins do not change their argument: after any sequence of
\* push, prepend, tail and init calls on an array bound to a name the name
\* still evaluates to an array of the same elements in the same order; push
\* returns a new array of the elements followed by x, prepend a new array of
\* x followed by the elements, tail a new array without the first element and
\* init a new array without the last one.
C21_BuiltinsDoNotMutate ==
    line \in ArrayBuiltinTexts =>
        /\ \A n \in 0 .. MaxArrayLen, calls \in CallLists :
               line = KeptText(n, calls) =>
                   /\ result.type = "ARRAY" /\ result.elements = ElementsOf(n)
                   /\ BoundToA = result
        /\ \A n \in 0 .. MaxArrayLen, call \in ArrayCalls :
               line = ReturnedText(n, call) =>
                   /\ result.type = "ARRAY" /\ result.elements = Returned(call, ElementsOf(n))
                   /\ BoundToA.type = "ARRAY" /\ BoundToA.elements = ElementsOf(n)
                   /\ result.id # BoundToA.id

\* let a = [10, 20]; push(a, 9); init(a); a has been evaluated, to [10, 20]
C21_Witness ==
    /\ line = KeptText(2, <<<<"p", "u", "s", "h", "(", "a", ",", " ", "9", ")">>,
                            <<"i", "n", "i", "t", "(", "a", ")">>>>)
    /\ result.type = "ARRAY"
    /\ result.elements = <<Integer(Fin(10)), Integer(Fin(20))>>

\* a return in if-blocks that are statements of the body, or of the program
ReturnInStatementsRule ==
    \A depth \in 0 .. MaxDepth, branch \in Branches :
        /\ line = CallText(depth, branch) => result = Integer(Fin(1))
        /\ line = CallThenText(depth, branch) => result = Integer(Fin(3))
        /\ line = TopLevelText(depth, branch) => result = Integer(Fin(1))

\* a return in an if-block that is the value of a let or of a return
ReturnInValuesRule ==
    /\ line = ReturnInLetValue => result = Integer(Fin(1))
    /\ line = ReturnInReturnValue => result = Integer(Fin(3))

\* C22: a return statement executed inside a function body, at any depth of
\* nested if-blocks, ends that invocation and no more: the call evaluates to
\* the returned value, the rest of the body is skipped, and the statements of
\* the caller after the call are evaluated; a return in nested if-blocks at
\* top level ends the program with the returned value.
C22_ReturnEndsTheInvocation ==
    line \in ReturnTexts => ReturnInStatementsRule /\ ReturnInValuesRule

\* the first event of the trace that enters the node, 0 if there is none
EnterAt(node) ==
    IF \E i \in 1 .. Len(trace) : trace[i].ev = "enter" /\ trace[i].node = node
    THEN Min({i \in 1 .. Len(trace) : trace[i].ev = "enter" /\ trace[i].node = node})
    ELSE 0

\* the first event of the trace that leaves the node, 0 if there is none
ExitAt(node) ==
    IF \E i \in 1 .. Len(trace) : trace[i].ev = "exit" /\ trace[i].node = node
    THEN Min({i \in 1 .. Len(trace) : trace[i].ev = "exit" /\ trace[i].node = node})
    ELSE 0

\* the node was evaluated, to an Error
GaveError(node) == ExitAt(node) > 0 /\ trace[ExitAt(node)].value.type = "ERROR"

\* the expression of the one statement of the line
TopNode == parsed.program.statements[1].expression

\* left before right: the right operand is entered after the left one was
\* left, and not at all after an Error, which is the result
InfixOrder(node) ==
    /\ EnterAt(node.left) > 0
    /\ IF GaveError(node.left)
       THEN EnterAt(node.right) = 0 /\ result = trace[ExitAt(node.left)].value
       ELSE /\ ExitAt(node.left) < EnterAt(node.right)
            /\ GaveError(node.right) => result = trace[ExitAt(node.right)].value

\* the callee and the arguments in the order of their evaluation
CallParts(node) == <<node.functionIdentifier>> \o node.functionArguments

\* the callee first, then the arguments from the left, each entered after
\* the one before was left and none after an Error, which is the result;
\* the callee is applied after the last argument, if at all
CallOrder(node) ==
    LET parts == CallParts(node)
        failed == {i \in 1 .. Len(parts) : GaveError(parts[i])}
    IN  /\ EnterAt(parts[1]) > 0
        /\ \A i \in 2 .. Len(parts) :
               IF \E j \in 1 .. (i - 1) : j \in failed
               THEN EnterAt(parts[i]) = 0
               ELSE ExitAt(parts[i - 1]) < EnterAt(parts[i])
        /\ failed # {} => result = trace[ExitAt(parts[Min(failed)])].value
        /\ \A i \in 1 .. Len(trace) :
               trace[i].ev = "call" => failed = {} /\ i > ExitAt(parts[Len(parts)])
        /\ failed = {} /\ trace[ExitAt(parts[1])].value.type = "INTEGER" =>
               result.type = "ERROR" /\ SubSeq(result.message, 1, 1) = <<"Not a function: ">>

BoundInBlocks(value) ==
    CASE value = <<"i", "f", " ", "(", "1", " ", "<", " ", "2", ")", " ", "{", " ", "l", "e", "t", " ", "q", " ", "=", " ", "1", ";", " ", "z", "z", " ", "}">> ->
            (<<"q">> :> Integer(Fin(1)))
      [] value = <<"i", "f", " ", "(", "f", "a", "l", "s", "e", ")", " ", "{", " ", "1", " ", "}", " ", "e", "l", "s", "e", " ", "{", " ", "l", "e", "t", " ", "q", " ", "=", " ", "7", ";", " ", "l", "e", "t", " ", "r", " ", "=", " ", "q", ";", " ", "z", "z", " ", "}">> ->
            (<<"q">> :> Integer(Fin(7))) @@ (<<"r">> :> Integer(Fin(7)))
      [] OTHER -> EmptyStore

\* the environment the three let statements are evaluated in: the session's,
\* or the one of the call of f, the second environment there is
LetScope == IF line[5] = "a" THEN heap[1].store ELSE heap[2].store

\* the environment after `let a = 1`
AfterLetA == (<<"a">> :> Integer(Fin(1)))

\* the statement as claimed: the line gives the Error of the value, and the
\* environment is the one `let a = 1` left
C24_LetErrorLeavesEnvironment ==
    line \in LetErrorTexts =>
        \A name \in FailedNames, value \in ErrorValues :
            line \in {LetErrorText(name, value), LetErrorInFunctionText(name, value)} =>
                result = ValueOf(value) /\ IsError(result) /\ LetScope = AfterLetA

\* C24: a let statement whose value expression evaluates to an Error binds
\* nothing itself and ends the program with that Error: the name of the
\* statement keeps the binding it had or stays unbound, the bindings of the
\* earlier statements are kept, the statements after it are not evaluated,
\* and the environment differs from the one before only by what the let
\* statements in the blocks of the value expression bound before the Error.
C24_LetErrorBindsNothing ==
    line \in LetErrorTexts =>
        \A name \in FailedNames, value \in ErrorValues :
            line \in {LetErrorText(name, value), LetErrorInFunctionText(name, value)} =>
                /\ result = ValueOf(value) /\ IsError(result)
                /\ LetScope = BoundInBlocks(value) @@ AfterLetA
                /\ <<"b">> \notin DOMAIN LetScope /\ <<"c">> \notin DOMAIN LetScope

\* let a = 1; let b = 5 + true; let c = 2 has been evaluated: the session
\* binds a alone
C24_Witness ==
    /\ line = LetErrorText(<<"b">>, <<"5", " ", "+", " ", "t", "r", "u", "e">>)
    /\ result.type = "ERROR"
    /\ DOMAIN heap[1].store = {<<"a">>}

\* the number of function calls made
Calls == Cardinality({i \in 1 .. Len(trace) : trace[i].ev = "call"})

\* the session's binding of q, and the one of the call of f
QInSession == IF <<"q">> \in DOMAIN heap[1].store THEN heap[1].store[<<"q">>] ELSE undefined

QInCall == IF <<"q">> \in DOMAIN heap[2].store THEN heap[2].store[<<"q">>] ELSE undefined

\* C25: blocks do not introduce a scope: a let executed in the consequence
\* or the alternative block of an if, however deep, binds the name in the
\* environment the if expression is evaluated in, so the statements after
\* the if see the name; a function call alone creates an environment, so a
\* let in a block of a function body binds in the environment of the call
\* and the session does not see it.
C25_BlocksShareScope ==
    line \in BlockScopeTexts =>
        /\ Len(heap) = 1 + Calls
        /\ \A depth \in 1 .. MaxDepth, branch \in Branches :
               /\ line \in {BlockLetText(depth, branch), BlockRebindText(depth, branch)} =>
                      result = Integer(Fin(1)) /\ QInSession = Integer(Fin(1)) /\ Calls = 0
               /\ line = BlockLetInFunctionText(depth, branch) =>
                      /\ result = Integer(Fin(1)) /\ Calls = 1
                      /\ QInCall = Integer(Fin(1)) /\ QInSession = undefined
               /\ line = FunctionScopeText(depth, branch) =>
                      /\ result = Error(<<"Identifier not found: ", "q">>) /\ Calls = 1
                      /\ QInCall = Integer(Fin(1)) /\ QInSession = undefined
               /\ line = FunctionShadowText(depth, branch) =>
                      /\ result = Integer(Fin(5)) /\ Calls = 1
                      /\ QInCall = Integer(Fin(1)) /\ QInSession = Integer(Fin(5))

\* a let two blocks deep in an alternative has been executed at top level
\* and the statement after the if has read the name
C25_Witness ==
    /\ line = BlockLetText(2, "alternative")
    /\ result = Integer(Fin(1))
    /\ <<"q">> \in DOMAIN heap[1].store

\* the environments the Function values bound in the session hold
CapturedBySession ==
    {heap[1].store[n].env : n \in {m \in DOMAIN heap[1].store : heap[1].store[m].type = "FUNCTION"}}

RECURSIVE SumOfElements(_)
\* 10 + 20 + ... + 10 * n
SumOfElements(n) == IF n = 0 THEN 0 ELSE SumOfElements(n - 1) + ElementValue(n - 1)

\* C26: a closure captures its defining environment by reference: a name
\* bound, or bound again, in that environment after the function value was
\* created is the one a later call reads, in the session and in the
\* environment of a call alike, and a function bound with let finds itself
\* under its own name, so it can call itself.
C26_ClosureByReference ==
    line \in ClosureTexts =>
        /\ CapturedBySession = {1}
        /\ \A v \in 0 .. MaxInt :
               /\ line \in {LateBindingText(v), LateRebindingText(v), LateInCallText(v)} =>
                      result = Integer(Fin(v))
               /\ line = LateInCallText(v) =>
                      /\ Calls = 2 /\ heap[2].store[<<"h">>].env = 2
                      /\ heap[3].outer = 2 /\ heap[2].store[<<"k">>] = Integer(Fin(v))
        /\ \A n \in 0 .. MaxRecursion :
               /\ line = CountDownText(n) => result = Integer(Fin(n)) /\ Calls = n + 1
               /\ line = IterText(n) =>
                      /\ result = Integer(Fin(SumOfElements(n))) /\ Calls = n + 1
                      /\ \A e \in 2 .. Len(heap) : heap[e].outer = 1

\* iter has called itself for each element of [10, 20] and the result is 30
C26_Witness ==
    /\ line = IterText(2)
    /\ result = Integer(Fin(30))
    /\ Calls = 3

\* the program is one expression statement holding a FunctionLiteral of these parameters
ParsedFunction(items) ==
    /\ parsed.tag = "ok"
    /\ Len(parsed.program.statements) = 1
    /\ parsed.program.statements[1].type = "Expression"
    /\ parsed.program.statements[1].expression.type = "Function"
    /\ LET parameters == parsed.program.statements[1].expression.parameters
       IN  /\ Len(parameters) = Len(items)
           /\ \A i \in 1 .. Len(items) :
                  /\ parameters[i].value = items[i]
                  /\ parameters[i].token.type = "IDENT"

\* C27: the parameter list of a function literal is a list of identifiers
\* separated by commas: every parameter of a parsed FunctionLiteral comes
\* from an IDENT token, and a list that holds another token, as fn(1, 2) {}
\* and fn(x, ) {} do, gives a parse error and no FunctionLiteral.
C27_ParametersAreIdentifiers ==
    line \in ParameterTexts =>
        \A items \in ParameterLists, trailing \in BOOLEAN :
            line = FunctionText(items, trailing) =>
                IF (\A i \in 1 .. Len(items) : items[i] \in {<<"x">>, <<"y">>}) /\ ~trailing
                THEN ParsedFunction(items)
                ELSE parsed.tag = "errors" /\ parsed.errors # <<>>

\* C28: a lookup gives the value of the innermost scope of the outer chain
\* that holds a value for the name, and nothing when no scope does: a
\* parameter that received an argument gives the argument, and a parameter
\* that received none does not hide the binding of its name in the captured
\* environment.
C28_LookupInnermostValue ==
    line \in ShadowTexts =>
        \A outer \in BOOLEAN, k \in 1 .. 2, n \in 0 .. MaxArguments :
            line = ShadowText(outer, k, n) =>
                result = IF k <= n THEN Integer(Fin(k))
                         ELSE IF outer THEN Integer(Fin(4 + k))
                         ELSE Error(<<"Identifier not found: ", ParameterNames[k]>>)

\* C30: every Integer value that evaluation produces holds a finite whole
\* number: for Integer operands a and b each of a + b, a - b, a * b and
\* a / b, a / 0 and 0 / 0 included, evaluates to an Integer holding a whole
\* number or to an Error, never to an Integer holding an infinite, a
\* fractional or a not-a-number value.
C30_IntegersAreWholeNumbers ==
    line \in ArithmeticTexts =>
        \/ result.type = "ERROR"
        \/ result.type = "INTEGER" /\ result.value.k \in {"fin", "-0"}

=============================================================================
